---- MODULE Spec2Model ----
(***************************************************************************)
(* A model of the APSA engine (services/apsaEngine.ts): the knowledge base *)
(* built by the constructor, the evidence store, the hypothesis scorer and *)
(* the question planner.                                                   *)
(*                                                                         *)
(* A JavaScript string is a sequence of one-character strings, so that     *)
(* split, trim, toLowerCase, includes and the keyword regular expressions  *)
(* are computed character by character.  A JavaScript number that holds a  *)
(* score is an integer; a probability is an exact rational <<num, den>> in *)
(* lowest terms (the model's arithmetic is exact, not floating point).     *)
(***************************************************************************)
EXTENDS Integers, Sequences, FiniteSets, TLC

VARIABLES knowledge, evidence, hypotheses, askedQuestions, cycle, terminated,
          lastCall,
          snapshot,
          appState, chat, messages, isLoading, categorizedSymptoms, report,
          proposedQuestion, pending,
          ai, DEFAULT_MODEL

\* The fields of the engine.
engineVars == <<knowledge, evidence, hypotheses, askedQuestions, cycle,
                terminated>>

\* What a caller of getSnapshot holds.
callerVars == <<snapshot>>

\* The state of the App component.
appVars == <<appState, chat, messages, isLoading, categorizedSymptoms, report,
             proposedQuestion, pending>>

\* The module state of the Gemini service.
serviceVars == <<ai, DEFAULT_MODEL>>

vars == <<engineVars, lastCall, callerVars, appVars, serviceVars>>

(***************************************************************************)
(* Bounds of the model.                                                    *)
(***************************************************************************)
\* Intake operations are enumerated while they leave at most MaxEvidence
\* evidence records.
MaxEvidence == 3
\* proposeQuestion is enumerated while the history is shorter.
MaxAsked == 2

(***************************************************************************)
(* Strings.                                                                *)
(***************************************************************************)
Range(seq) == {seq[i] : i \in 1..Len(seq)}

\* The characters String.prototype.trim removes, among those the model uses.
Whitespace == {" ", "\n", "\t"}

UpperCase == <<"A","B","C","D","E","F","G","H","I","J","K","L","M",
               "N","O","P","Q","R","S","T","U","V","W","X","Y","Z">>

LowerCase == <<"a","b","c","d","e","f","g","h","i","j","k","l","m",
               "n","o","p","q","r","s","t","u","v","w","x","y","z">>

LowerTable ==
  [c \in Range(UpperCase) |-> LowerCase[CHOOSE i \in 1..26 : UpperCase[i] = c]]

LowerChar(c) == IF c \in DOMAIN LowerTable THEN LowerTable[c] ELSE c

\* String.prototype.toLowerCase
ToLowerCase(s) == [i \in 1..Len(s) |-> LowerChar(s[i])]

RECURSIVE TrimStart(_)
TrimStart(s) ==
  IF s # <<>> /\ Head(s) \in Whitespace THEN TrimStart(Tail(s)) ELSE s

RECURSIVE TrimEnd(_)
TrimEnd(s) ==
  IF s # <<>> /\ s[Len(s)] \in Whitespace
  THEN TrimEnd(SubSeq(s, 1, Len(s) - 1))
  ELSE s

\* String.prototype.trim
Trim(s) == TrimEnd(TrimStart(s))

\* String.prototype.includes
Includes(t, s) ==
  \E i \in 0..(Len(t) - Len(s)) : \A j \in 1..Len(s) : t[i + j] = s[j]

\* String.prototype.split on a one-character class: the pieces between the
\* delimiters, empty pieces included.
RECURSIVE SplitFrom(_, _, _)
SplitFrom(s, delims, piece) ==
  IF s = <<>> THEN <<piece>>
  ELSE IF Head(s) \in delims
       THEN <<piece>> \o SplitFrom(Tail(s), delims, <<>>)
       ELSE SplitFrom(Tail(s), delims, Append(piece, Head(s)))

Split(s, delims) == SplitFrom(s, delims, <<>>)

\* RegExp.prototype.test for an unanchored alternation of literals
TestAny(alternatives, s) == \E k \in alternatives : Includes(s, k)

(***************************************************************************)
(* Exact rationals <<num, den>>, den > 0, in lowest terms.                 *)
(***************************************************************************)
RECURSIVE GCD(_, _)
GCD(a, b) == IF b = 0 THEN a ELSE GCD(b, a % b)

Abs(x) == IF x < 0 THEN -x ELSE x

Rat(n, d) ==
  LET g == GCD(Abs(n), d) IN <<n \div g, d \div g>>

RatAdd(p, q) ==
  LET l == (p[2] * q[2]) \div GCD(p[2], q[2])
  IN  Rat(p[1] * (l \div p[2]) + q[1] * (l \div q[2]), l)

RECURSIVE RatSum(_)
RatSum(seq) ==
  IF seq = <<>> THEN <<0, 1>> ELSE RatAdd(Head(seq), RatSum(Tail(seq)))

(***************************************************************************)
(* JavaScript numbers: IEEE 754 binary64 with round-to-nearest-even, for   *)
(* the values that are zero or positive.  A natural number is a sequence   *)
(* of limbs, least significant first, without leading zero limbs; a double *)
(* is [m, e] and stands for m * 2^e, with m either zero or of 53 bits.     *)
(* An operator that uses an argument more than once first binds it to its  *)
(* value, as the one element v of a set.                                   *)
(***************************************************************************)
LimbBase == 32768

LimbWidth == 15

MantissaBits == 53

RECURSIVE Strip(_)
Strip(a) ==
  IF a # <<>> /\ a[Len(a)] = 0 THEN Strip(SubSeq(a, 1, Len(a) - 1)) ELSE a

RECURSIVE NatAdd(_, _, _)
NatAdd(a, b, carry) ==
  IF a = <<>> /\ b = <<>>
  THEN IF carry = 0 THEN <<>> ELSE <<carry>>
  ELSE LET x == (IF a = <<>> THEN 0 ELSE Head(a))
                + (IF b = <<>> THEN 0 ELSE Head(b)) + carry
       IN  <<x % LimbBase>>
           \o NatAdd(IF a = <<>> THEN a ELSE Tail(a),
                     IF b = <<>> THEN b ELSE Tail(b), x \div LimbBase)

\* a - b - borrow, for a >= b + borrow; leading zero limbs are kept.
RECURSIVE NatSubLimbs(_, _, _)
NatSubLimbs(a, b, borrow) ==
  IF a = <<>> THEN <<>>
  ELSE LET x == Head(a) - (IF b = <<>> THEN 0 ELSE Head(b)) - borrow
       IN  <<IF x < 0 THEN x + LimbBase ELSE x>>
           \o NatSubLimbs(Tail(a), IF b = <<>> THEN b ELSE Tail(b),
                          IF x < 0 THEN 1 ELSE 0)

NatSub(a, b) == Strip(NatSubLimbs(a, b, 0))

RECURSIVE LessFrom(_, _, _)
LessFrom(a, b, i) ==
  IF i = 0 THEN FALSE
  ELSE IF a[i] # b[i] THEN a[i] < b[i]
  ELSE LessFrom(a, b, i - 1)

NatLess(a, b) ==
  IF Len(a) # Len(b) THEN Len(a) < Len(b) ELSE LessFrom(a, b, Len(a))

NatOdd(a) == a # <<>> /\ a[1] % 2 = 1

NatDouble(a) == NatAdd(a, a, 0)

NatHalf(a) ==
  Strip([i \in 1..Len(a) |->
           (a[i] + (IF i < Len(a) THEN a[i + 1] % 2 ELSE 0) * LimbBase) \div 2])

RECURSIVE LimbBits(_)
LimbBits(x) == IF x = 0 THEN 0 ELSE 1 + LimbBits(x \div 2)

BitLen(a) ==
  IF a = <<>> THEN 0 ELSE LimbWidth * (Len(a) - 1) + LimbBits(a[Len(a)])

RECURSIVE ShiftLeft(_, _)
ShiftLeft(a, n) ==
  CHOOSE r \in
    { IF n = 0 \/ v = <<>> THEN v
      ELSE IF n >= LimbWidth THEN ShiftLeft(<<0>> \o v, n - LimbWidth)
      ELSE ShiftLeft(NatDouble(v), n - 1) : v \in {a} } : TRUE

\* a shifted right by n bits, with sticky telling whether a bit that was
\* shifted out (or sticky before) was 1.
RECURSIVE ShiftRight(_, _, _)
ShiftRight(a, n, sticky) ==
  CHOOSE r \in
    { IF n = 0 \/ v.m = <<>> THEN v
      ELSE IF n >= LimbWidth
           THEN ShiftRight(Tail(v.m), n - LimbWidth, v.sticky \/ Head(v.m) # 0)
      ELSE ShiftRight(NatHalf(v.m), n - 1, v.sticky \/ NatOdd(v.m))
      : v \in {[m |-> Strip(a), sticky |-> sticky]} } : TRUE

Zero == [m |-> <<>>, e |-> 0]

\* m * 2^e (with sticky: and a little more) rounded to the nearest double,
\* to the even mantissa when halfway.
RoundToDouble(m, e, sticky) ==
  CHOOSE z \in
    { LET n == BitLen(v)
      IN  IF n = 0 THEN Zero
          ELSE IF n <= MantissaBits
          THEN [m |-> ShiftLeft(v, MantissaBits - n),
                e |-> e - (MantissaBits - n)]
          ELSE CHOOSE y \in
                 { LET guard == NatOdd(s.m)
                       kept  == NatHalf(s.m)
                       up    == guard /\ (s.sticky \/ NatOdd(kept))
                       r     == IF up THEN NatAdd(kept, <<>>, 1) ELSE kept
                   IN  IF BitLen(r) > MantissaBits
                       THEN [m |-> NatHalf(r), e |-> e + (n - MantissaBits) + 1]
                       ELSE [m |-> Strip(r), e |-> e + (n - MantissaBits)]
                   : s \in {ShiftRight(v, n - MantissaBits - 1, sticky)} } : TRUE
      : v \in {Strip(m)} } : TRUE

\* The double of a small natural number.
FromInt(k) ==
  RoundToDouble(Strip(<<k % LimbBase, k \div LimbBase>>), 0, FALSE)

\* x + y
DoubleAdd(x, y) ==
  CHOOSE z \in
    { IF v[1].m = <<>> THEN v[2]
      ELSE IF v[2].m = <<>> THEN v[1]
      ELSE LET e == IF v[1].e < v[2].e THEN v[1].e ELSE v[2].e
           IN  RoundToDouble(NatAdd(ShiftLeft(v[1].m, v[1].e - e),
                                    ShiftLeft(v[2].m, v[2].e - e), 0), e, FALSE)
      : v \in {<<x, y>>} } : TRUE

\* The quotient and remainder after k more bits of the long division by d.
RECURSIVE DivideBits(_, _, _, _)
DivideBits(q, r, d, k) ==
  IF k = 0 THEN [q |-> q, r |-> r]
  ELSE CHOOSE z \in
         { DivideBits(v.q, v.r, d, k - 1)
           : v \in { IF NatLess(r2, d)
                     THEN [q |-> NatDouble(q), r |-> r2]
                     ELSE [q |-> NatAdd(NatDouble(q), <<>>, 1),
                           r |-> NatSub(r2, d)]
                     : r2 \in {NatDouble(r)} } } : TRUE

QuotientBits == 55

\* x / y, for y not zero
DoubleDiv(x, y) ==
  CHOOSE z \in
    { IF v[1].m = <<>> THEN Zero
      ELSE CHOOSE w \in
             { RoundToDouble(qr.q, v[1].e - v[2].e - QuotientBits, qr.r # <<>>)
               : qr \in
                   { DivideBits(IF first THEN <<1>> ELSE <<>>,
                                IF first THEN NatSub(v[1].m, v[2].m)
                                ELSE v[1].m,
                                v[2].m, QuotientBits)
                     : first \in {~NatLess(v[1].m, v[2].m)} } } : TRUE
      : v \in {<<x, y>>} } : TRUE

\* x < y
DoubleLess(x, y) ==
  IF y.m = <<>> THEN FALSE
  ELSE IF x.m = <<>> THEN TRUE
  ELSE IF x.e # y.e THEN x.e < y.e
  ELSE NatLess(x.m, y.m)

One == FromInt(1)

\* The literal 0.001
Thousandth == DoubleDiv(FromInt(1), FromInt(1000))

(***************************************************************************)
(* The knowledge base: APSAEngine.constructor.                             *)
(*                                                                         *)
(* A Record<string, Set<string>> is a sequence of entries                  *)
(* [condition, tokens] in key insertion order; a Set<string> is a sequence *)
(* without repetitions in insertion order, which is the order a for-of     *)
(* loop visits it in.                                                      *)
(***************************************************************************)
RowDelims == {".", ";", "\n"}

\* Set.prototype.add
SetAdd(set, t) == IF t \in Range(set) THEN set ELSE Append(set, t)

RECURSIVE AddTokens(_, _)
AddTokens(tokens, pieces) ==
  IF pieces = <<>> THEN tokens
  ELSE LET t == ToLowerCase(Trim(Head(pieces)))
       IN  AddTokens(IF Len(t) > 2 THEN SetAdd(tokens, t) ELSE tokens,
                     Tail(pieces))

\* RowTokens that takes every piece of a symptom text, whatever its length.
RowTokensUnfiltered(row) ==
  IF "symptoms" \in DOMAIN row
  THEN LET pieces == Split(row.symptoms, RowDelims)
           RECURSIVE AddAll(_, _)
           AddAll(tokens, k) ==
             IF k > Len(pieces) THEN tokens
             ELSE AddAll(SetAdd(tokens, ToLowerCase(Trim(pieces[k]))), k + 1)
       IN  AddAll(<<>>, 1)
  ELSE <<>>

\* The tokens of a row; `if (row.symptoms)` fails for a row without the
\* field and for the empty text.
RowTokens(row) ==
  IF "symptoms" \in DOMAIN row /\ row.symptoms # <<>>
  THEN AddTokens(<<>>, Split(row.symptoms, RowDelims))
  ELSE <<>>

\* Assign that adds the tokens to those an entry already has.
AssignMerging(kb, condition, tokens) ==
  IF \E i \in 1..Len(kb) : kb[i].condition = condition
  THEN [i \in 1..Len(kb) |->
          IF kb[i].condition = condition
          THEN [condition |-> condition,
                tokens |-> kb[i].tokens
                           \o SelectSeq(tokens,
                                        LAMBDA t : t \notin Range(kb[i].tokens))]
          ELSE kb[i]]
  ELSE Append(kb, [condition |-> condition, tokens |-> tokens])

\* this.knowledge[row.disease_name] = tokens
Assign(kb, condition, tokens) ==
  IF \E i \in 1..Len(kb) : kb[i].condition = condition
  THEN [i \in 1..Len(kb) |->
          IF kb[i].condition = condition
          THEN [condition |-> condition, tokens |-> tokens]
          ELSE kb[i]]
  ELSE Append(kb, [condition |-> condition, tokens |-> tokens])

RECURSIVE BuildKnowledge(_, _)
BuildKnowledge(kb, dataset) ==
  IF dataset = <<>> THEN kb
  ELSE BuildKnowledge(Assign(kb, Head(dataset).disease_name,
                             RowTokens(Head(dataset))),
                      Tail(dataset))

Constructor(dataset) == BuildKnowledge(<<>>, dataset)

\* Object.keys(this.knowledge)
Conditions(kb) == [i \in 1..Len(kb) |-> kb[i].condition]

\* this.knowledge[condition]
Tokens(kb, condition) ==
  kb[CHOOSE i \in 1..Len(kb) : kb[i].condition = condition].tokens

(***************************************************************************)
(* Datasets the engine is constructed from.                                *)
(***************************************************************************)
\* The two rows of the end-to-end example.
TwoConditions ==
  << [disease_name |-> "Strep Throat",
      symptoms |-> <<"s","o","r","e"," ","t","h","r","o","a","t",";"," ","f","e","v","e","r",";"," ","s","w","o","l","l","e","n"," ","g","l","a","n","d","s">>],
     [disease_name |-> "Common Cold",
      symptoms |-> <<"r","u","n","n","y"," ","n","o","s","e",";"," ","s","o","r","e"," ","t","h","r","o","a","t",";"," ","c","o","u","g","h">>] >>

Datasets == {TwoConditions}

(***************************************************************************)
(* The hypothesis scorer: APSAEngine.regenerateHypotheses.                 *)
(***************************************************************************)
\* The inner loop over the tokens of one condition, for one evidence record.
\* ScoreTokens that stops at the first token containing the name.
RECURSIVE ScoreTokensFirstHit(_, _, _)
ScoreTokensFirstHit(acc, ev, tokens) ==
  IF tokens = <<>> THEN acc
  ELSE LET hit == Includes(Head(tokens), ev.name)
           a1  == IF hit /\ ev.presence = "present"
                  THEN [acc EXCEPT !.score = @ + 2,
                                   !.supporting = Append(@, ev.name)]
                  ELSE acc
           a2  == IF hit /\ ev.presence = "absent"
                  THEN [a1 EXCEPT !.score = @ - 2,
                                  !.contradicting = Append(@, ev.name)]
                  ELSE a1
       IN  IF hit THEN a2 ELSE ScoreTokensFirstHit(a2, ev, Tail(tokens))

\* ScoreTokens with `if (ev.presence !== 'present')` as its second test.
RECURSIVE ScoreTokensNotPresent(_, _, _)
ScoreTokensNotPresent(acc, ev, tokens) ==
  IF tokens = <<>> THEN acc
  ELSE LET hit == Includes(Head(tokens), ev.name)
           a1  == IF hit /\ ev.presence = "present"
                  THEN [acc EXCEPT !.score = @ + 2,
                                   !.supporting = Append(@, ev.name)]
                  ELSE acc
           a2  == IF hit /\ ev.presence # "present"
                  THEN [a1 EXCEPT !.score = @ - 2,
                                  !.contradicting = Append(@, ev.name)]
                  ELSE a1
       IN  ScoreTokensNotPresent(a2, ev, Tail(tokens))

\* ScoreTokens that lists an absent match without lowering the score.
RECURSIVE ScoreTokensAbsentListed(_, _, _)
ScoreTokensAbsentListed(acc, ev, tokens) ==
  IF tokens = <<>> THEN acc
  ELSE LET hit == Includes(Head(tokens), ev.name)
           a1  == IF hit /\ ev.presence = "present"
                  THEN [acc EXCEPT !.score = @ + 2,
                                   !.supporting = Append(@, ev.name)]
                  ELSE acc
           a2  == IF hit /\ ev.presence = "absent"
                  THEN [a1 EXCEPT !.contradicting = Append(@, ev.name)]
                  ELSE a1
       IN  ScoreTokensAbsentListed(a2, ev, Tail(tokens))

RECURSIVE ScoreTokens(_, _, _)
ScoreTokens(acc, ev, tokens) ==
  IF tokens = <<>> THEN acc
  ELSE LET hit == Includes(Head(tokens), ev.name)
           a1  == IF hit /\ ev.presence = "present"
                  THEN [acc EXCEPT !.score = @ + 2,
                                   !.supporting = Append(@, ev.name)]
                  ELSE acc
           a2  == IF hit /\ ev.presence = "absent"
                  THEN [a1 EXCEPT !.score = @ - 2,
                                  !.contradicting = Append(@, ev.name)]
                  ELSE a1
       IN  ScoreTokens(a2, ev, Tail(tokens))

\* The loop over the evidence records, for one condition.
RECURSIVE ScoreEvidence(_, _, _)
ScoreEvidence(acc, evs, tokens) ==
  IF evs = <<>> THEN acc
  ELSE ScoreEvidence(ScoreTokens(acc, Head(evs), tokens), Tail(evs), tokens)

ScoreCondition(kb, evs, condition) ==
  ScoreEvidence([condition |-> condition, score |-> 0,
                 supporting |-> <<>>, contradicting |-> <<>>],
                evs, Tokens(kb, condition))

\* ScoreAll with the test `if (score !== 0)` in place of
\* `if (supporting.length)`.
RECURSIVE ScoreAllByScore(_, _, _)
ScoreAllByScore(kb, evs, conds) ==
  IF conds = <<>> THEN <<>>
  ELSE LET s == ScoreCondition(kb, evs, Head(conds))
       IN  (IF s.score # 0 THEN <<s>> ELSE <<>>)
           \o ScoreAllByScore(kb, evs, Tail(conds))

\* The loop over the conditions: only the supported ones are pushed.
RECURSIVE ScoreAll(_, _, _)
ScoreAll(kb, evs, conds) ==
  IF conds = <<>> THEN <<>>
  ELSE LET s == ScoreCondition(kb, evs, Head(conds))
       IN  (IF s.supporting # <<>> THEN <<s>> ELSE <<>>)
           \o ScoreAll(kb, evs, Tail(conds))

\* InsertByScore that places an entry before the entries of equal score.
RECURSIVE InsertBeforeEqual(_, _)
InsertBeforeEqual(sorted, x) ==
  IF sorted = <<>> THEN <<x>>
  ELSE IF Head(sorted).score > x.score
       THEN <<Head(sorted)>> \o InsertBeforeEqual(Tail(sorted), x)
       ELSE <<x>> \o sorted

\* scores.sort((a,b) => b.score - a.score): Array.prototype.sort is stable.
RECURSIVE InsertByScore(_, _)
InsertByScore(sorted, x) ==
  IF sorted = <<>> THEN <<x>>
  ELSE IF Head(sorted).score >= x.score
       THEN <<Head(sorted)>> \o InsertByScore(Tail(sorted), x)
       ELSE <<x>> \o sorted

RECURSIVE SortByScore(_)
SortByScore(scores) ==
  IF scores = <<>> THEN <<>>
  ELSE InsertByScore(SortByScore(SubSeq(scores, 1, Len(scores) - 1)),
                     scores[Len(scores)])

TopN == 6

\* scores.slice(0, 6)
Top(scores) == SubSeq(scores, 1, IF Len(scores) < TopN THEN Len(scores) ELSE TopN)

\* Math.min(...top.map(t => t.score)), the minimum without the 0.
RECURSIVE MinScoreOfTop(_)
MinScoreOfTop(top) ==
  IF top = <<>> THEN 0
  ELSE IF Tail(top) = <<>> THEN Head(top).score
  ELSE LET m == MinScoreOfTop(Tail(top))
       IN  IF Head(top).score < m THEN Head(top).score ELSE m

\* Math.min(...top.map(t => t.score), 0)
RECURSIVE MinScore(_)
MinScore(top) ==
  IF top = <<>> THEN 0
  ELSE LET m == MinScore(Tail(top))
       IN  IF Head(top).score < m THEN Head(top).score ELSE m

\* t.score - min, in thousandths: the shift without the 0.001.
ShiftedToZero(top) ==
  [i \in 1..Len(top) |-> 1000 * (top[i].score - MinScore(top))]

\* t.score - min + 0.001, in thousandths
Shifted(top) ==
  [i \in 1..Len(top) |-> 1000 * (top[i].score - MinScore(top)) + 1]

RECURSIVE SumSeq(_)
SumSeq(seq) == IF seq = <<>> THEN 0 ELSE Head(seq) + SumSeq(Tail(seq))

\* Total with the reduction seeded with 1: reduce((s,x) => s + x.score, 1).
TotalSeededWithOne(shifted) == 1000 + SumSeq(shifted)

\* shifted.reduce((s,x) => s + x.score, 0) || 1, in thousandths
Total(shifted) == IF SumSeq(shifted) = 0 THEN 1000 ELSE SumSeq(shifted)

RegenerateHypotheses(kb, evs) ==
  LET top     == Top(SortByScore(ScoreAll(kb, evs, Conditions(kb))))
      shifted == Shifted(top)
      total   == Total(shifted)
  IN  [i \in 1..Len(top) |->
         [condition     |-> top[i].condition,
          probability   |-> Rat(shifted[i], total),
          supporting    |-> top[i].supporting,
          contradicting |-> top[i].contradicting]]

(***************************************************************************)
(* The free-text extractor: APSAEngine.addUserFreeText.                    *)
(***************************************************************************)
TextDelims == {",", ";", "\n"}

ExtractorKeywords ==
  { <<"p","a","i","n">>, <<"a","c","h","e">>, <<"f","e","v","e","r">>, <<"c","o","u","g","h">>, <<"d","i","z","z">>, <<"n","a","u","s","e","a">>,
    <<"v","o","m","i","t">>, <<"h","e","a","d","a","c","h","e">>, <<"f","a","t","i","g","u","e">>, <<"t","i","r","e","d">>, <<"s","o","r","e">>, <<"t","h","r","o","a","t">>,
    <<"r","a","s","h">>, <<"i","t","c","h">>, <<"s","w","e","l","l","i","n","g">>, <<"c","r","a","m","p">>, <<"d","i","a","r","r","h","e","a">>,
    <<"c","o","n","s","t","i","p","a","t","i","o","n">>, <<"s","h","o","r","t","n","e","s","s"," ","o","f"," ","b","r","e","a","t","h">>, <<"c","h","e","s","t"," ","t","i","g","h","t">>,
    <<"p","a","l","p","i","t","a","t","i","o","n">> }

\* keywords.test(c)
KeywordsTest(c) == TestAny(ExtractorKeywords, c)

\* TrimNonEmpty that drops the empty pieces and trims none.
RECURSIVE NonEmptyUntrimmed(_)
NonEmptyUntrimmed(pieces) ==
  IF pieces = <<>> THEN <<>>
  ELSE (IF Head(pieces) # <<>> THEN <<Head(pieces)>> ELSE <<>>)
       \o NonEmptyUntrimmed(Tail(pieces))

\* .map(t => t.trim()).filter(Boolean)
RECURSIVE TrimNonEmpty(_)
TrimNonEmpty(pieces) ==
  IF pieces = <<>> THEN <<>>
  ELSE LET t == Trim(Head(pieces))
       IN  (IF t # <<>> THEN <<t>> ELSE <<>>) \o TrimNonEmpty(Tail(pieces))

Candidates(text) == TrimNonEmpty(Split(ToLowerCase(text), TextDelims))

\* this.state.evidence.find(e => e.name === name) finds a record
Find(evs, name) == \E i \in 1..Len(evs) : evs[i].name = name

\* PushCandidates with the lookup made in the evidence list as it was
\* before the loop, so pushes of the same call are not seen.
RECURSIVE PushCandidatesStale(_, _, _)
PushCandidatesStale(evs, cands, messageIndex) ==
  LET RECURSIVE New(_)
      New(cs) ==
        IF cs = <<>> THEN <<>>
        ELSE (IF KeywordsTest(Head(cs)) /\ ~Find(evs, Head(cs))
              THEN <<[name |-> Head(cs), presence |-> "present",
                      sourceMessageIndex |-> messageIndex]>>
              ELSE <<>>) \o New(Tail(cs))
  IN  evs \o New(cands)

\* PushCandidates that marks a phrase found in the evidence list present
\* again instead of skipping it.
RECURSIVE PushCandidatesReaffirm(_, _, _)
PushCandidatesReaffirm(evs, cands, messageIndex) ==
  IF cands = <<>> THEN evs
  ELSE LET c == Head(cands)
       IN  PushCandidatesReaffirm(
             IF ~KeywordsTest(c) THEN evs
             ELSE IF Find(evs, c)
                  THEN [i \in 1..Len(evs) |->
                          IF evs[i].name = c
                          THEN [evs[i] EXCEPT !.presence = "present"]
                          ELSE evs[i]]
                  ELSE Append(evs, [name |-> c, presence |-> "present",
                                    sourceMessageIndex |-> messageIndex]),
             Tail(cands), messageIndex)

\* The for loop over the candidates.
RECURSIVE PushCandidates(_, _, _)
PushCandidates(evs, cands, messageIndex) ==
  IF cands = <<>> THEN evs
  ELSE LET c == Head(cands)
       IN  PushCandidates(
             IF KeywordsTest(c) /\ ~Find(evs, c)
             THEN Append(evs, [name |-> c, presence |-> "present",
                               sourceMessageIndex |-> messageIndex])
             ELSE evs,
             Tail(cands), messageIndex)

(***************************************************************************)
(* The structured answer intake: APSAEngine.answerQuestion.                *)
(***************************************************************************)
Presences == {"present", "absent", "uncertain"}

\* StoreAnswer that stamps an overwritten record with the turn index of the
\* overwriting answer.
StoreAnswerRestamping(evs, symptom, presence, messageIndex) ==
  IF ~Find(evs, symptom)
  THEN Append(evs, [name |-> symptom, presence |-> presence,
                    sourceMessageIndex |-> messageIndex])
  ELSE LET k == CHOOSE i \in 1..Len(evs) :
                  /\ evs[i].name = symptom
                  /\ \A j \in 1..(i - 1) : evs[j].name # symptom
       IN  [evs EXCEPT ![k].presence = presence,
                       ![k].sourceMessageIndex = messageIndex]

\* StoreAnswer without the lookup: every answer pushes a record.
StoreAnswerAlwaysPush(evs, symptom, presence, messageIndex) ==
  Append(evs, [name |-> symptom, presence |-> presence,
               sourceMessageIndex |-> messageIndex])

\* StoreAnswer that replaces an existing record by removing it and pushing
\* the new one.
StoreAnswerRemoveAndPush(evs, symptom, presence, messageIndex) ==
  LET RECURSIVE Others(_)
      Others(es) ==
        IF es = <<>> THEN <<>>
        ELSE (IF Head(es).name = symptom THEN <<>> ELSE <<Head(es)>>)
             \o Others(Tail(es))
  IN  Append(Others(evs), [name |-> symptom, presence |-> presence,
                           sourceMessageIndex |-> messageIndex])

StoreAnswer(evs, symptom, presence, messageIndex) ==
  IF ~Find(evs, symptom)
  THEN Append(evs, [name |-> symptom, presence |-> presence,
                    sourceMessageIndex |-> messageIndex])
  ELSE LET k == CHOOSE i \in 1..Len(evs) :
                  /\ evs[i].name = symptom
                  /\ \A j \in 1..(i - 1) : evs[j].name # symptom
       IN  [evs EXCEPT ![k].presence = presence]

(***************************************************************************)
(* The question planner: APSAEngine.proposeQuestion.                       *)
(***************************************************************************)
PlannerKeywords ==
  { <<"p","a","i","n">>, <<"f","e","v","e","r">>, <<"c","o","u","g","h">>, <<"h","e","a","d","a","c","h","e">>, <<"d","i","z","z">>, <<"n","a","u","s","e","a">>,
    <<"v","o","m","i","t">>, <<"r","a","s","h">>, <<"s","w","e","l","l","i","n","g">>, <<"d","i","a","r","r","h","e","a">>,
    <<"s","h","o","r","t","n","e","s","s"," ","o","f"," ","b","r","e","a","t","h">>, <<"c","h","e","s","t">> }

PlannerTest(k) == TestAny(PlannerKeywords, k)

\* Object.keys(symptomFreq): the tokens of the hypotheses' conditions in
\* first-seen order.
RECURSIVE SymptomFreqKeys(_, _, _)
SymptomFreqKeys(kb, hyps, keys) ==
  IF hyps = <<>> THEN keys
  ELSE LET tokens == Tokens(kb, Head(hyps).condition)
           RECURSIVE AddAll(_, _)
           AddAll(ks, ts) ==
             IF ts = <<>> THEN ks ELSE AddAll(SetAdd(ks, Head(ts)), Tail(ts))
       IN  SymptomFreqKeys(kb, Tail(hyps), AddAll(keys, tokens))

\* new Set(this.state.evidence.map(e => e.name))
Known(evs) == {evs[i].name : i \in 1..Len(evs)}

\* PlannerCandidates without the `!known.has(k)` test.
RECURSIVE PlannerCandidatesKnownToo(_, _)
PlannerCandidatesKnownToo(keys, evs) ==
  IF keys = <<>> THEN <<>>
  ELSE (IF PlannerTest(Head(keys)) THEN <<Head(keys)>> ELSE <<>>)
       \o PlannerCandidatesKnownToo(Tail(keys), evs)

RECURSIVE PlannerCandidates(_, _)
PlannerCandidates(keys, evs) ==
  IF keys = <<>> THEN <<>>
  ELSE (IF Head(keys) \notin Known(evs) /\ PlannerTest(Head(keys))
        THEN <<Head(keys)>> ELSE <<>>)
       \o PlannerCandidates(Tail(keys), evs)

\* pPresent: the probability mass of the hypotheses whose condition has the
\* token.
RECURSIVE PPresent(_, _, _)
PPresent(kb, hyps, token) ==
  IF hyps = <<>> THEN <<0, 1>>
  ELSE LET rest == PPresent(kb, Tail(hyps), token)
       IN  IF token \in Range(Tokens(kb, Head(hyps).condition))
           THEN RatAdd(Head(hyps).probability, rest)
           ELSE rest

\* The binary entropy -(p*log2(p) + (1-p)*log2(1-p)) is symmetric about 1/2
\* and strictly decreasing in |p - 1/2|, so gains are compared through the
\* distance |2*num - den| / den of p = num/den from 1/2.
GainGreater(p, q) ==
  Abs(2 * p[1] - p[2]) * q[2] < Abs(2 * q[1] - q[2]) * p[2]

\* The raw score of a listed hypothesis: every push onto supporting came
\* with score += 2 and every push onto contradicting with score -= 2.
ScoreOf(h) == 2 * Len(h.supporting) - 2 * Len(h.contradicting)

RECURSIVE DoubleSum(_, _)
DoubleSum(acc, seq) ==
  IF seq = <<>> THEN acc
  ELSE DoubleSum(DoubleAdd(acc, Head(seq)), Tail(seq))

\* The numbers that line 77 stored as the probabilities of the list:
\* (score - min + 0.001) / total, computed in doubles.
DoubleProbabilities(hyps) ==
  LET top == [i \in 1..Len(hyps) |-> [score |-> ScoreOf(hyps[i])]]
  IN  CHOOSE probabilities \in
        { [i \in 1..Len(hyps) |->
             DoubleDiv(v.shifted[i], IF v.sum = Zero THEN One ELSE v.sum)]
          : v \in
              { [shifted |-> shifted, sum |-> DoubleSum(Zero, shifted)]
                : shifted \in
                    { [i \in 1..Len(hyps) |->
                         DoubleAdd(FromInt(top[i].score - MinScore(top)),
                                   Thousandth)] } } } : TRUE

\* pPresent as the loop of lines 96-99 adds it up in doubles.
RECURSIVE DoublePPresent(_, _, _, _, _)
DoublePPresent(kb, hyps, probabilities, token, acc) ==
  IF hyps = <<>> THEN acc
  ELSE DoublePPresent(kb, Tail(hyps), Tail(probabilities), token,
                      IF token \in Range(Tokens(kb, Head(hyps).condition))
                      THEN DoubleAdd(acc, Head(probabilities))
                      ELSE acc)

\* What the program computes for the token of every hypothesis: "skip" when
\* pPresent is 1 (pAbsent === 0), "nan" when pPresent is above 1 (pAbsent is
\* negative and Math.log2 of it is NaN), "low" when pPresent is below 1 (a
\* gain just above zero).
GainOfShared(kb, hyps, token) ==
  CHOOSE gain \in
    { IF pPresent = One THEN "skip"
      ELSE IF DoubleLess(One, pPresent) THEN "nan" ELSE "low"
      : pPresent \in
          { DoublePPresent(kb, hyps, probabilities, token, Zero)
            : probabilities \in {DoubleProbabilities(hyps)} } } : TRUE

\* The loop that keeps the best candidate; best is <<>> or <<[token, p,
\* nan]>>.  p is pPresent as a fraction.  The sum of the doubles of some
\* but not all hypotheses differs from 0 and from 1 by far more than its
\* rounding error, so the doubles decide for the token of every hypothesis
\* only; no comparison with a NaN gain is true.
RECURSIVE Best(_, _, _, _)
Best(kb, hyps, cands, best) ==
  IF cands = <<>> THEN best
  ELSE LET token == Head(cands)
           p     == PPresent(kb, hyps, token)
       IN  CHOOSE kept \in
             { IF gain = "skip"
               THEN Best(kb, hyps, Tail(cands), best)
               ELSE IF \/ best = <<>>
                       \/ /\ gain # "nan"
                          /\ ~best[1].nan
                          /\ GainGreater(p, best[1].p)
                    THEN Best(kb, hyps, Tail(cands),
                              <<[token |-> token, p |-> p,
                                 nan |-> gain = "nan"]>>)
                    ELSE Best(kb, hyps, Tail(cands), best)
               : gain \in
                   { IF p = <<1, 1>> THEN GainOfShared(kb, hyps, token)
                     ELSE IF p = <<0, 1>> THEN "skip" ELSE "real" } } : TRUE

QuestionText(token) == <<"H","a","v","e"," ","y","o","u"," ","e","x","p","e","r","i","e","n","c","e","d"," ">> \o token \o <<"?">>

\* Plan whose expectedSplits gives every condition the probability of the
\* leading hypothesis.
PlanLeaderForAll(hyps, token) ==
  [question       |-> QuestionText(token),
   targetSymptom  |-> token,
   rationale      |-> "High information gain discriminating among leading hypotheses",
   expectedSplits |-> [c \in {hyps[i].condition : i \in 1..Len(hyps)} |->
                         hyps[1].probability]]

Plan(hyps, token) ==
  [question       |-> QuestionText(token),
   targetSymptom  |-> token,
   rationale      |-> "High information gain discriminating among leading hypotheses",
   expectedSplits |-> [c \in {hyps[i].condition : i \in 1..Len(hyps)} |->
                         hyps[CHOOSE i \in 1..Len(hyps) :
                                /\ hyps[i].condition = c
                                /\ \A j \in (i + 1)..Len(hyps) :
                                     hyps[j].condition # c].probability]]

\* Proposal that needs one hypothesis only and falls back on the first
\* candidate when no candidate discriminates.
ProposalWithFallback(kb, evs, hyps) ==
  IF Len(hyps) < 1 THEN <<>>
  ELSE LET cands == PlannerCandidates(SymptomFreqKeys(kb, hyps, <<>>), evs)
           best  == Best(kb, hyps, cands, <<>>)
       IN  IF best # <<>> THEN <<Plan(hyps, best[1].token)>>
           ELSE IF cands # <<>> THEN <<Plan(hyps, cands[1])>>
           ELSE <<>>

\* The value proposeQuestion returns: <<>> for null, <<plan>> for a plan.
Proposal(kb, evs, hyps) ==
  IF Len(hyps) < 2 THEN <<>>
  ELSE LET best == Best(kb, hyps,
                        PlannerCandidates(SymptomFreqKeys(kb, hyps, <<>>), evs),
                        <<>>)
       IN  IF best = <<>> THEN <<>> ELSE <<Plan(hyps, best[1].token)>>

(***************************************************************************)
(* Inputs.                                                                 *)
(***************************************************************************)
Utterances ==
  { <<"F","e","v","e","r",","," ","f","e","v","e","r">>,
    <<"m","i","l","d"," ",";"," ","S","o","r","e"," ","t","h","r","o","a","t","\n">> }

Symptoms == { <<"s","o","r","e"," ","t","h","r","o","a","t">>, <<"f","e","v","e","r">> }

Turns == {0, 1}

(***************************************************************************)
(* The Gemini service (services/geminiService.ts).                         *)
(*                                                                         *)
(* ai is the client of the module: null (NoClient) when configureApiKey    *)
(* found no key at load, otherwise a client whose chats.create, for each   *)
(* model name, returns a chat or throws.  DEFAULT_MODEL is the constant of *)
(* that name.  Model names are atoms, messages are strings.                *)
(***************************************************************************)
FALLBACK_MODELS ==
  << "gemini-2.5-flash", "gemini-2.0-flash", "gemini-1.5-flash", "gemini-pro" >>

\* The values of VITE_GEMINI_MODEL: unset, the first fallback, a later
\* fallback, a model that is no fallback.
ModelSettings == {"", "gemini-2.5-flash", "gemini-1.5-flash", "gemini-exp"}

\* (import.meta.env.VITE_GEMINI_MODEL as string) || 'gemini-2.5-flash'
ModelOrDefault(env) == IF env # "" THEN env ELSE "gemini-2.5-flash"

ModelNames == Range(FALLBACK_MODELS) \cup {"gemini-exp"}

\* new Error(message)
NewError(message) ==
  [thrown |-> "Error", name |-> <<"E","r","r","o","r">>, message |-> message]

\* chats.create returned a chat.
Created == [thrown |-> "nothing"]

\* What chats.create throws: Errors whose message holds one of the words of
\* the pattern, in lower or in upper case, or none of them, an Error of
\* another class with no message, a string.
Thrown ==
  [ NotFound |-> NewError(<<"m","o","d","e","l","s","/","g","e","m","i","n","i","-","e","x","p"," ","i","s"," ","n","o","t"," ","f","o","u","n","d"," ","f","o","r"," ","A","P","I"," ","v","e","r","s","i","o","n"," ","v","1">>),
    BadField |-> NewError(<<"U","n","k","n","o","w","n"," ","F","I","E","L","D"," ","i","n"," ","r","e","q","u","e","s","t">>),
    Offline |-> NewError(<<"F","a","i","l","e","d"," ","t","o"," ","f","e","t","c","h">>),
    Blank |-> [thrown |-> "Error", name |-> <<"T","y","p","e","E","r","r","o","r">>, message |-> <<>>],
    Refused |-> [thrown |-> "string", value |-> <<"U","n","s","u","p","p","o","r","t","e","d"," ","l","o","c","a","t","i","o","n">>] ]

CreateOutcomes == {Created} \cup {Thrown[k] : k \in DOMAIN Thrown}

NoClient == [configured |-> FALSE]

Clients ==
  {NoClient} \cup
  {[configured |-> TRUE, create |-> f] : f \in [ModelNames -> CreateOutcomes]}

\* A client that creates a chat for every model.
Serving == [configured |-> TRUE, create |-> [m \in ModelNames |-> Created]]

\* String(err), for an Error (Error.prototype.toString) and for a string.
StringOf(err) ==
  IF err.thrown = "string" THEN err.value
  ELSE IF err.name = <<>> THEN err.message
  ELSE IF err.message = <<>> THEN err.name
  ELSE err.name \o <<":"," ">> \o err.message

\* String((err as any)?.message || err)
MessageOf(err) ==
  IF err.thrown = "Error" /\ err.message # <<>>
  THEN err.message
  ELSE StringOf(err)

\* /not found|unsupported|model|field/i .test(msg)
ModelRelated(msg) ==
  TestAny({ <<"n","o","t"," ","f","o","u","n","d">>, <<"u","n","s","u","p","p","o","r","t","e","d">>, <<"m","o","d","e","l">>, <<"f","i","e","l","d">> },
          ToLowerCase(msg))

\* [DEFAULT_MODEL, ...FALLBACK_MODELS.filter(m => m !== DEFAULT_MODEL)]
candidates ==
  <<DEFAULT_MODEL>> \o SelectSeq(FALLBACK_MODELS, LAMBDA m : m # DEFAULT_MODEL)

\* What a call of startChatSession did: the models it handed to
\* chats.create, in order, the model of the chat it returned ("" when it
\* threw) and what it threw (Created when it returned).
Returned(tried, model) == [tried |-> tried, chat |-> model, error |-> Created]

Threw(tried, err) == [tried |-> tried, chat |-> "", error |-> err]

\* A loop that goes on to the next model whatever was thrown.
RECURSIVE TryModelsPastAnyError(_, _, _, _)
TryModelsPastAnyError(create, models, tried, lastError) ==
  IF models = <<>>
  THEN Threw(tried, lastError)
  ELSE LET model == Head(models)
       IN  IF create[model].thrown = "nothing"
           THEN Returned(Append(tried, model), model)
           ELSE TryModelsPastAnyError(create, Tail(models),
                                      Append(tried, model), create[model])

\* The for loop over the candidates and the throw after it.  lastError is
\* undefined (<<>>) until an error is caught.
RECURSIVE TryModels(_, _, _, _)
TryModels(create, models, tried, lastError) ==
  IF models = <<>>
  THEN Threw(tried,
             IF lastError # <<>> THEN lastError[1]
             ELSE NewError(<<"U","n","a","b","l","e"," ","t","o"," ","i","n","i","t","i","a","l","i","z","e"," ","c","h","a","t"," ","s","e","s","s","i","o","n"," ","w","i","t","h"," ","a","v","a","i","l","a","b","l","e"," ","m","o","d","e","l","s",".">>))
  ELSE LET model == Head(models)
       IN  IF create[model].thrown = "nothing"
           THEN Returned(Append(tried, model), model)
           ELSE IF ~ModelRelated(MessageOf(create[model]))
                THEN Threw(Append(tried, model), create[model])
                ELSE TryModels(create, Tail(models), Append(tried, model),
                               <<create[model]>>)

\* startChatSession, as a function of the module's state.
StartChat ==
  IF ~ai.configured
  THEN Threw(<<>>, NewError(<<"M","i","s","s","i","n","g"," ","A","P","I"," ","k","e","y","."," ","P","r","o","v","i","d","e"," ","V","I","T","E","_","G","E","M","I","N","I","_","A","P","I","_","K","E","Y"," ","i","n"," ","e","n","v","i","r","o","n","m","e","n","t"," ","v","a","r","i","a","b","l","e","s",".">>))
  ELSE TryModels(ai.create, candidates, <<>>, <<>>)

(***************************************************************************)
(* The engine as a state machine.                                          *)
(***************************************************************************)
Init ==
  /\ knowledge \in {Constructor(d) : d \in Datasets}
  /\ evidence = <<>>
  /\ hypotheses = <<>>
  /\ askedQuestions = <<>>
  /\ cycle = 0
  /\ terminated = FALSE
  /\ lastCall = [op |-> "constructor", args |-> <<>>, result |-> <<>>]
  /\ snapshot = <<>>
  /\ appState = "GREETING"
  /\ chat = FALSE
  /\ messages = 0
  /\ isLoading = FALSE
  /\ categorizedSymptoms = FALSE
  /\ report = FALSE
  /\ proposedQuestion = <<>>
  /\ pending = <<>>
  /\ ai = Serving
  /\ DEFAULT_MODEL = ModelOrDefault("")

\* AddUserFreeText whose recompute pushes onto the list it finds.
AddUserFreeTextAccumulating(text, messageIndex) ==
  /\ evidence' = PushCandidates(evidence, Candidates(text), messageIndex)
  /\ Len(evidence') <= MaxEvidence
  /\ hypotheses' = hypotheses \o RegenerateHypotheses(knowledge, evidence')
  /\ lastCall' = [op |-> "addUserFreeText", args |-> <<text, messageIndex>>,
                  result |-> <<>>]
  /\ UNCHANGED <<knowledge, askedQuestions, cycle, terminated>>
  /\ UNCHANGED <<callerVars, appVars, serviceVars>>

AddUserFreeText(text, messageIndex) ==
  /\ evidence' = PushCandidates(evidence, Candidates(text), messageIndex)
  /\ Len(evidence') <= MaxEvidence
  /\ hypotheses' = RegenerateHypotheses(knowledge, evidence')
  /\ lastCall' = [op |-> "addUserFreeText", args |-> <<text, messageIndex>>,
                  result |-> <<>>]
  /\ UNCHANGED <<knowledge, askedQuestions, cycle, terminated>>
  /\ UNCHANGED <<callerVars, appVars, serviceVars>>

\* AnswerQuestion that recomputes the hypotheses only after a push.
AnswerQuestionRecomputeOnPush(symptom, presence, messageIndex) ==
  /\ evidence' = StoreAnswer(evidence, symptom, presence, messageIndex)
  /\ Len(evidence') <= MaxEvidence
  /\ hypotheses' = IF Find(evidence, symptom)
                   THEN hypotheses
                   ELSE RegenerateHypotheses(knowledge, evidence')
  /\ lastCall' = [op |-> "answerQuestion",
                  args |-> <<symptom, presence, messageIndex>>,
                  result |-> <<>>]
  /\ UNCHANGED <<knowledge, askedQuestions, cycle, terminated>>
  /\ UNCHANGED <<callerVars, appVars, serviceVars>>

AnswerQuestion(symptom, presence, messageIndex) ==
  /\ evidence' = StoreAnswer(evidence, symptom, presence, messageIndex)
  /\ Len(evidence') <= MaxEvidence
  /\ hypotheses' = RegenerateHypotheses(knowledge, evidence')
  /\ lastCall' = [op |-> "answerQuestion",
                  args |-> <<symptom, presence, messageIndex>>,
                  result |-> <<>>]
  /\ UNCHANGED <<knowledge, askedQuestions, cycle, terminated>>
  /\ UNCHANGED <<callerVars, appVars, serviceVars>>

\* ProposeQuestion that notes the symptom it asks about as uncertain
\* evidence.
ProposeQuestionNotingTarget ==
  /\ Len(askedQuestions) < MaxAsked
  /\ LET plan == Proposal(knowledge, evidence, hypotheses)
     IN  /\ askedQuestions' = askedQuestions \o plan
         /\ evidence' =
              IF plan = <<>> THEN evidence
              ELSE Append(evidence, [name |-> plan[1].targetSymptom,
                                     presence |-> "uncertain",
                                     sourceMessageIndex |-> 0])
         /\ lastCall' = [op |-> "proposeQuestion", args |-> <<>>,
                         result |-> plan]
  /\ Len(evidence') <= MaxEvidence
  /\ UNCHANGED <<knowledge, hypotheses, cycle, terminated>>
  /\ UNCHANGED <<callerVars, appVars, serviceVars>>

\* ProposeQuestion that ends the interview when it finds no question.
ProposeQuestionTerminating ==
  /\ Len(askedQuestions) < MaxAsked
  /\ LET plan == Proposal(knowledge, evidence, hypotheses)
     IN  /\ askedQuestions' = askedQuestions \o plan
         /\ terminated' = (terminated \/ plan = <<>>)
         /\ lastCall' = [op |-> "proposeQuestion", args |-> <<>>,
                         result |-> plan]
  /\ UNCHANGED <<knowledge, evidence, hypotheses, cycle>>
  /\ UNCHANGED <<callerVars, appVars, serviceVars>>

\* ProposeQuestion that keeps the latest plan only.
ProposeQuestionKeepingLatest ==
  /\ Len(askedQuestions) < MaxAsked
  /\ LET plan == Proposal(knowledge, evidence, hypotheses)
     IN  /\ askedQuestions' = IF plan = <<>> THEN askedQuestions ELSE plan
         /\ lastCall' = [op |-> "proposeQuestion", args |-> <<>>,
                         result |-> plan]
  /\ UNCHANGED <<knowledge, evidence, hypotheses, cycle, terminated>>
  /\ UNCHANGED <<callerVars, appVars, serviceVars>>

ProposeQuestion ==
  /\ Len(askedQuestions) < MaxAsked
  /\ LET plan == Proposal(knowledge, evidence, hypotheses)
     IN  /\ askedQuestions' = askedQuestions \o plan
         /\ lastCall' = [op |-> "proposeQuestion", args |-> <<>>,
                         result |-> plan]
  /\ UNCHANGED <<knowledge, evidence, hypotheses, cycle, terminated>>
  /\ UNCHANGED <<callerVars, appVars, serviceVars>>

Next ==
  \/ \E text \in Utterances, messageIndex \in Turns :
       AddUserFreeText(text, messageIndex)
  \/ \E symptom \in Symptoms, presence \in Presences, messageIndex \in Turns :
       AnswerQuestion(symptom, presence, messageIndex)
  \/ ProposeQuestion

Spec == Init /\ [][Next]_vars

(***************************************************************************)
(* The planner driven by structured answers alone, over symptoms that let  *)
(* a single condition be supported while one of its tokens is still a      *)
(* candidate question.                                                     *)
(***************************************************************************)
PlannerSymptoms == { <<"s","o","r","e"," ","t","h","r","o","a","t">>, <<"s","w","o","l","l","e","n"," ","g","l","a","n","d","s">> }

NextPlanner ==
  \/ \E symptom \in PlannerSymptoms, presence \in Presences :
       AnswerQuestion(symptom, presence, 0)
  \/ ProposeQuestion

SpecPlanner == Init /\ [][NextPlanner]_vars

(***************************************************************************)
(* The App component (App.tsx) driving one engine.                         *)
(*                                                                         *)
(* The dataset has loaded and the engine has been constructed (Init).      *)
(* messages is the length of the message list; chat, categorizedSymptoms   *)
(* and report are TRUE when the state holds a value and FALSE when it      *)
(* holds null; proposedQuestion is <<>> for null.  pending lists the       *)
(* handlers that are suspended at an await.  A handler sees the isLoading  *)
(* and chat of the latest render.                                          *)
(***************************************************************************)
\* The message list is capped at MaxMessages entries.
MaxMessages == 4

Contents ==
  { <<"F","e","v","e","r",","," ","f","e","v","e","r">>,
    <<"m","i","l","d"," ",";"," ","S","o","r","e"," ","t","h","r","o","a","t","\n">> }

ChatViews == {"CHATTING", "REVIEWING", "GENERATING_REPORT"}

\* The suspended handlers without one of them.
Resumed(handler) ==
  LET k == CHOOSE i \in 1..Len(pending) : pending[i] = handler
  IN  SubSeq(pending, 1, k - 1) \o SubSeq(pending, k + 1, Len(pending))

Suspended(handler) == \E i \in 1..Len(pending) : pending[i] = handler

\* initChat, up to its first await (the button of the greeting view, which
\* is disabled while isLoading).
InitChat ==
  /\ appState = "GREETING"
  /\ ~isLoading
  /\ isLoading' = TRUE
  /\ appState' = "CHATTING"
  /\ pending' = Append(pending, "initChat")
  /\ UNCHANGED <<chat, messages, categorizedSymptoms, report,
                 proposedQuestion>>
  /\ UNCHANGED <<engineVars, lastCall, callerVars, serviceVars>>

\* initChat from its await on: startChatSession throws ("noChat"), the first
\* sendMessage throws ("noReply"), or both succeed ("ok").
InitChatSettles(outcome) ==
  /\ Suspended("initChat")
  /\ (outcome = "noChat") = (StartChat.chat = "")
  /\ chat' = IF outcome = "noChat" THEN chat ELSE TRUE
  /\ messages' = 1
  /\ isLoading' = FALSE
  /\ pending' = Resumed("initChat")
  /\ UNCHANGED <<appState, categorizedSymptoms, report, proposedQuestion>>
  /\ UNCHANGED <<engineVars, lastCall, callerVars, serviceVars>>

\* handleSendMessage that does not look at isLoading.
HandleSendMessageWhileLoading(content) ==
  /\ appState \in ChatViews
  /\ messages + 2 <= MaxMessages
  /\ Len(askedQuestions) < MaxAsked
  /\ IF ~chat
     THEN UNCHANGED vars
     ELSE /\ messages' = messages + 1
          /\ isLoading' = TRUE
          /\ evidence' = PushCandidates(evidence, Candidates(content), messages)
          /\ hypotheses' = RegenerateHypotheses(knowledge, evidence')
          /\ lastCall' = [op |-> "addUserFreeText",
                          args |-> <<content, messages>>, result |-> <<>>]
          /\ pending' = Append(pending, "sendMessage")
          /\ UNCHANGED <<appState, chat, categorizedSymptoms, report,
                         proposedQuestion>>
          /\ UNCHANGED <<knowledge, askedQuestions, cycle, terminated,
                         callerVars, serviceVars>>

\* handleSendMessage, up to its await, called from the chat window at any
\* time: it returns at once without a chat or while isLoading; else the
\* user message is appended and the text is fed to the engine with the
\* length of the message list.
HandleSendMessage(content) ==
  /\ appState \in ChatViews
  /\ messages + 2 <= MaxMessages
  /\ Len(askedQuestions) < MaxAsked
  /\ IF ~chat \/ isLoading
     THEN UNCHANGED vars
     ELSE /\ messages' = messages + 1
          /\ isLoading' = TRUE
          /\ evidence' = PushCandidates(evidence, Candidates(content), messages)
          /\ hypotheses' = RegenerateHypotheses(knowledge, evidence')
          /\ lastCall' = [op |-> "addUserFreeText",
                          args |-> <<content, messages>>, result |-> <<>>]
          /\ pending' = Append(pending, "sendMessage")
          /\ UNCHANGED <<appState, chat, categorizedSymptoms, report,
                         proposedQuestion>>
          /\ UNCHANGED <<knowledge, askedQuestions, cycle, terminated,
                         callerVars, serviceVars>>

\* handleSendMessage from its await on: the model answers and the engine
\* is asked for a question, or sendMessage throws.
SendMessageSettles(ok) ==
  /\ Suspended("sendMessage")
  /\ messages' = messages + 1
  /\ IF ok
     THEN LET plan == Proposal(knowledge, evidence, hypotheses)
          IN  /\ askedQuestions' = askedQuestions \o plan
              /\ lastCall' = [op |-> "proposeQuestion", args |-> <<>>,
                              result |-> plan]
              /\ proposedQuestion' =
                   IF plan = <<>> THEN <<>> ELSE <<plan[1].question>>
     ELSE UNCHANGED <<askedQuestions, lastCall, proposedQuestion>>
  /\ isLoading' = FALSE
  /\ pending' = Resumed("sendMessage")
  /\ UNCHANGED <<appState, chat, categorizedSymptoms, report>>
  /\ UNCHANGED <<knowledge, evidence, hypotheses, cycle, terminated,
                 callerVars, serviceVars>>

\* handleReviewSymptoms, up to its await (the button shown while chatting
\* once the list holds more than one message): it returns at once without
\* a chat or while isLoading.
HandleReviewSymptoms ==
  /\ appState = "CHATTING"
  /\ messages > 1
  /\ messages < MaxMessages
  /\ IF ~chat \/ isLoading
     THEN UNCHANGED vars
     ELSE /\ appState' = "REVIEWING"
          /\ isLoading' = TRUE
          /\ pending' = Append(pending, "review")
          /\ UNCHANGED <<chat, messages, categorizedSymptoms, report,
                         proposedQuestion>>
          /\ UNCHANGED <<engineVars, lastCall, callerVars, serviceVars>>

ReviewSettles(ok) ==
  /\ Suspended("review")
  /\ IF ok
     THEN /\ categorizedSymptoms' = TRUE
          /\ UNCHANGED <<messages, appState>>
     ELSE /\ messages' = messages + 1
          /\ appState' = "CHATTING"
          /\ UNCHANGED categorizedSymptoms
  /\ isLoading' = FALSE
  /\ pending' = Resumed("review")
  /\ UNCHANGED <<chat, report, proposedQuestion>>
  /\ UNCHANGED <<engineVars, lastCall, callerVars, serviceVars>>

\* handleConfirmSymptoms, up to its await (the button of the symptom review
\* panel): it returns at once without a chat, without categorized symptoms
\* or while isLoading.
HandleConfirmSymptoms ==
  /\ appState \in ChatViews
  /\ appState # "GENERATING_REPORT"
  /\ messages < MaxMessages
  /\ IF ~chat \/ ~categorizedSymptoms \/ isLoading
     THEN UNCHANGED vars
     ELSE /\ appState' = "GENERATING_REPORT"
          /\ isLoading' = TRUE
          /\ pending' = Append(pending, "report")
          /\ UNCHANGED <<chat, messages, categorizedSymptoms, report,
                         proposedQuestion>>
          /\ UNCHANGED <<engineVars, lastCall, callerVars, serviceVars>>

\* ReportSettles that returns to the chat when the report fails.
ReportSettlesToChat(ok) ==
  /\ Suspended("report")
  /\ IF ok
     THEN /\ report' = TRUE
          /\ appState' = "REPORTING"
          /\ UNCHANGED messages
     ELSE /\ messages' = messages + 1
          /\ appState' = "CHATTING"
          /\ UNCHANGED report
  /\ isLoading' = FALSE
  /\ pending' = Resumed("report")
  /\ UNCHANGED <<chat, categorizedSymptoms, proposedQuestion>>
  /\ UNCHANGED <<engineVars, lastCall, callerVars, serviceVars>>

\* handleConfirmSymptoms from its await on: the report arrives, or
\* generateFinalReport throws.
ReportSettles(ok) ==
  /\ Suspended("report")
  /\ IF ok
     THEN /\ report' = TRUE
          /\ appState' = "REPORTING"
          /\ UNCHANGED messages
     ELSE /\ messages' = messages + 1
          /\ appState' = "REVIEWING"
          /\ UNCHANGED report
  /\ isLoading' = FALSE
  /\ pending' = Resumed("report")
  /\ UNCHANGED <<chat, categorizedSymptoms, proposedQuestion>>
  /\ UNCHANGED <<engineVars, lastCall, callerVars, serviceVars>>

\* handleStartOver (the button of the report view).
HandleStartOver ==
  /\ appState = "REPORTING"
  /\ report
  /\ appState' = "GREETING"
  /\ chat' = FALSE
  /\ messages' = 0
  /\ isLoading' = FALSE
  /\ categorizedSymptoms' = FALSE
  /\ report' = FALSE
  /\ proposedQuestion' = <<>>
  /\ UNCHANGED pending
  /\ UNCHANGED <<engineVars, lastCall, callerVars, serviceVars>>

NextApp ==
  \/ InitChat
  \/ \E outcome \in {"ok", "noReply", "noChat"} : InitChatSettles(outcome)
  \/ \E content \in Contents : HandleSendMessage(content)
  \/ \E ok \in BOOLEAN : SendMessageSettles(ok)
  \/ HandleReviewSymptoms
  \/ \E ok \in BOOLEAN : ReviewSettles(ok)
  \/ HandleConfirmSymptoms
  \/ \E ok \in BOOLEAN : ReportSettles(ok)
  \/ HandleStartOver

\* The clients the App is run with: none, one that creates a chat for every
\* model, one that cannot reach the service.
AppClients ==
  { NoClient, Serving,
    [configured |-> TRUE, create |-> [m \in ModelNames |-> Thrown.Offline]] }

InitApp ==
  /\ knowledge \in {Constructor(d) : d \in Datasets}
  /\ evidence = <<>>
  /\ hypotheses = <<>>
  /\ askedQuestions = <<>>
  /\ cycle = 0
  /\ terminated = FALSE
  /\ lastCall = [op |-> "constructor", args |-> <<>>, result |-> <<>>]
  /\ snapshot = <<>>
  /\ appState = "GREETING"
  /\ chat = FALSE
  /\ messages = 0
  /\ isLoading = FALSE
  /\ categorizedSymptoms = FALSE
  /\ report = FALSE
  /\ proposedQuestion = <<>>
  /\ pending = <<>>
  /\ ai \in AppClients
  /\ DEFAULT_MODEL = ModelOrDefault("")

SpecApp == InitApp /\ [][NextApp]_vars

(***************************************************************************)
(* The read-only queries and the snapshots their callers hold.             *)
(*                                                                         *)
(* snapshot is <<>> before the first getSnapshot and otherwise <<s>> with  *)
(* s.value the object that was returned, s.shares the fields of it whose   *)
(* arrays are the engine's own arrays, and s.edited whether the caller has *)
(* written to it.                                                          *)
(***************************************************************************)
\* this.state
State ==
  [cycle |-> cycle, hypotheses |-> hypotheses,
   askedQuestions |-> askedQuestions, evidence |-> evidence,
   terminated |-> terminated]

\* What the caller reads from the snapshot it holds.
Observed ==
  IF snapshot = <<>> THEN <<>>
  ELSE LET s == snapshot[1]
       IN  <<[s.value EXCEPT
                !.evidence = IF "evidence" \in s.shares THEN evidence ELSE @,
                !.askedQuestions =
                   IF "askedQuestions" \in s.shares THEN askedQuestions ELSE @]>>

\* getSnapshot returning a shallow copy, { ...this.state }.
GetSnapshotShallow ==
  /\ snapshot' = <<[value |-> State, shares |-> {"evidence", "askedQuestions"},
                    edited |-> FALSE]>>
  /\ lastCall' = [op |-> "getSnapshot", args |-> <<>>, result |-> <<State>>]
  /\ UNCHANGED <<engineVars, appVars, serviceVars>>

\* JSON.parse(JSON.stringify(this.state)): every array and object of the
\* result is new.
GetSnapshot ==
  /\ snapshot' = <<[value |-> State, shares |-> {}, edited |-> FALSE]>>
  /\ lastCall' = [op |-> "getSnapshot", args |-> <<>>, result |-> <<State>>]
  /\ UNCHANGED <<engineVars, appVars, serviceVars>>

\* The caller empties an array of the snapshot it holds
\* (snap.evidence.length = 0, snap.askedQuestions.length = 0).
CallerEdits(field) ==
  /\ snapshot # <<>>
  /\ ~snapshot[1].edited
  /\ snapshot' = <<[snapshot[1] EXCEPT !.value[field] = <<>>,
                                       !.edited = TRUE]>>
  /\ evidence' = IF field = "evidence" /\ field \in snapshot[1].shares
                 THEN <<>> ELSE evidence
  /\ askedQuestions' =
       IF field = "askedQuestions" /\ field \in snapshot[1].shares
       THEN <<>> ELSE askedQuestions
  /\ UNCHANGED <<knowledge, hypotheses, cycle, terminated, lastCall, appVars,
                 serviceVars>>

\* [...tokens].some(t => t.includes(target))
SomeIncludes(tokens, target) ==
  \E i \in 1..Len(tokens) : Includes(tokens[i], target)

\* counter[t] = (counter[t] || 0) + 1, keys in insertion order
RECURSIVE Count(_, _)
Count(counter, t) ==
  IF counter = <<>> THEN <<[token |-> t, count |-> 1]>>
  ELSE IF Head(counter).token = t
       THEN <<[Head(counter) EXCEPT !.count = @ + 1]>> \o Tail(counter)
       ELSE <<Head(counter)>> \o Count(Tail(counter), t)

\* CountTokens that counts the tokens containing the target too.
RECURSIVE CountTokensWithTarget(_, _, _)
CountTokensWithTarget(counter, tokens, target) ==
  IF tokens = <<>> THEN counter
  ELSE LET t == Head(tokens)
       IN  CountTokensWithTarget(IF Len(t) < 3 THEN counter
                                 ELSE Count(counter, t),
                                 Tail(tokens), target)

\* for (const t of tokens) { ... }
RECURSIVE CountTokens(_, _, _)
CountTokens(counter, tokens, target) ==
  IF tokens = <<>> THEN counter
  ELSE LET t == Head(tokens)
       IN  CountTokens(IF Includes(t, target) \/ Len(t) < 3
                       THEN counter
                       ELSE Count(counter, t),
                       Tail(tokens), target)

\* for (const condition of Object.keys(this.knowledge)) { ... }
RECURSIVE CountConditions(_, _, _)
CountConditions(counter, kb, target) ==
  IF kb = <<>> THEN counter
  ELSE CountConditions(IF SomeIncludes(Head(kb).tokens, target)
                       THEN CountTokens(counter, Head(kb).tokens, target)
                       ELSE counter,
                       Tail(kb), target)

\* InsertByCount that puts an entry before the entries of equal count.
RECURSIVE InsertBeforeEqualCount(_, _)
InsertBeforeEqualCount(sorted, x) ==
  IF sorted = <<>> THEN <<x>>
  ELSE IF Head(sorted).count > x.count
       THEN <<Head(sorted)>> \o InsertBeforeEqualCount(Tail(sorted), x)
       ELSE <<x>> \o sorted

\* .sort((a,b) => b[1] - a[1]), a stable sort
RECURSIVE InsertByCount(_, _)
InsertByCount(sorted, x) ==
  IF sorted = <<>> THEN <<x>>
  ELSE IF Head(sorted).count >= x.count
       THEN <<Head(sorted)>> \o InsertByCount(Tail(sorted), x)
       ELSE <<x>> \o sorted

RECURSIVE SortByCount(_)
SortByCount(counter) ==
  IF counter = <<>> THEN <<>>
  ELSE InsertByCount(SortByCount(SubSeq(counter, 1, Len(counter) - 1)),
                     counter[Len(counter)])

\* .slice(0, limit) for a limit that is not negative
Slice(seq, limit) ==
  SubSeq(seq, 1, IF Len(seq) < limit THEN Len(seq) ELSE limit)

Cooccurring(kb, symptom, limit) ==
  LET target == ToLowerCase(symptom)
      sorted == SortByCount(CountConditions(<<>>, kb, target))
      top    == Slice(sorted, limit)
  IN  [i \in 1..Len(top) |-> top[i].token]

\* getCooccurring that counts each lookup as a cycle of the engine.
GetCooccurringCounted(symptom, limit) ==
  /\ lastCall' = [op |-> "getCooccurring", args |-> <<symptom, limit>>,
                  result |-> Cooccurring(knowledge, symptom, limit)]
  /\ cycle' = 1
  /\ UNCHANGED <<knowledge, evidence, hypotheses, askedQuestions, terminated>>
  /\ UNCHANGED <<callerVars, appVars, serviceVars>>

GetCooccurring(symptom, limit) ==
  /\ lastCall' = [op |-> "getCooccurring", args |-> <<symptom, limit>>,
                  result |-> Cooccurring(knowledge, symptom, limit)]
  /\ UNCHANGED <<engineVars, callerVars, appVars, serviceVars>>

Phrases == { <<"S","o","r","e"," ","T","h","r","o","a","t">>, <<"f","e","v","e","r">>, <<>> }

Limits == {1, 4}

Answered == { <<"s","o","r","e"," ","t","h","r","o","a","t">> }

NextQueries ==
  \/ \E text \in Utterances : AddUserFreeText(text, 0)
  \/ \E symptom \in Answered, presence \in Presences :
       AnswerQuestion(symptom, presence, 0)
  \/ ProposeQuestion
  \/ GetSnapshot
  \/ \E field \in {"evidence", "askedQuestions"} : CallerEdits(field)
  \/ \E symptom \in Phrases, limit \in Limits : GetCooccurring(symptom, limit)

SpecQueries == Init /\ [][NextQueries]_vars

(***************************************************************************)
(* The scorer over a knowledge base of eight conditions: more supported    *)
(* conditions than the list keeps, equal scores at the cut, a condition    *)
(* with two tokens containing one name, and scores below zero.             *)
(***************************************************************************)
EightConditions ==
  << [disease_name |-> "Sciatica",     symptoms |-> <<"b","a","c","k"," ","p","a","i","n",";"," ","f","e","v","e","r">>],
     [disease_name |-> "Pleurisy",     symptoms |-> <<"c","h","e","s","t"," ","p","a","i","n",";"," ","c","o","u","g","h",";"," ","f","e","v","e","r">>],
     [disease_name |-> "Migraine",     symptoms |-> <<"h","e","a","d"," ","p","a","i","n">>],
     [disease_name |-> "Meningitis",   symptoms |-> <<"n","e","c","k"," ","p","a","i","n",";"," ","f","e","v","e","r">>],
     [disease_name |-> "Bursitis",     symptoms |-> <<"k","n","e","e"," ","p","a","i","n">>],
     [disease_name |-> "Arthritis",    symptoms |-> <<"h","i","p"," ","p","a","i","n">>],
     [disease_name |-> "Mumps",        symptoms |-> <<"j","a","w"," ","p","a","i","n","."," ","E","a","r"," ","p","a","i","n",";"," ","f","e","v","e","r">>],
     [disease_name |-> "Bronchitis",   symptoms |-> <<"c","o","u","g","h",";"," ","f","e","v","e","r">>] >>

RankingSymptoms == { <<"p","a","i","n">>, <<"f","e","v","e","r">>, <<"c","o","u","g","h">> }

InitRanking ==
  /\ knowledge = Constructor(EightConditions)
  /\ evidence = <<>>
  /\ hypotheses = <<>>
  /\ askedQuestions = <<>>
  /\ cycle = 0
  /\ terminated = FALSE
  /\ lastCall = [op |-> "constructor", args |-> <<>>, result |-> <<>>]
  /\ snapshot = <<>>
  /\ appState = "GREETING"
  /\ chat = FALSE
  /\ messages = 0
  /\ isLoading = FALSE
  /\ categorizedSymptoms = FALSE
  /\ report = FALSE
  /\ proposedQuestion = <<>>
  /\ pending = <<>>
  /\ ai = Serving
  /\ DEFAULT_MODEL = ModelOrDefault("")

NextRanking ==
  \E symptom \in RankingSymptoms, presence \in Presences :
    AnswerQuestion(symptom, presence, 0)

SpecRanking == InitRanking /\ [][NextRanking]_vars

(***************************************************************************)
(* The planner over four conditions that share the token "fatigue": the    *)
(* first token of the scan is held by one hypothesis, later ones by two.   *)
(***************************************************************************)
FourConditions ==
  << [disease_name |-> "Angina",    symptoms |-> <<"f","a","t","i","g","u","e",";"," ","c","h","e","s","t"," ","p","a","i","n">>],
     [disease_name |-> "Flu",       symptoms |-> <<"f","a","t","i","g","u","e",";"," ","c","o","u","g","h",";"," ","n","a","u","s","e","a">>],
     [disease_name |-> "Pertussis",
      symptoms |-> <<"f","a","t","i","g","u","e",";"," ","c","o","u","g","h",";"," ","n","a","u","s","e","a",";"," ","v","o","m","i","t","i","n","g">>],
     [disease_name |-> "Anemia",    symptoms |-> <<"f","a","t","i","g","u","e",";"," ","d","i","z","z","i","n","e","s","s">>] >>

SelectionSymptoms == { <<"f","a","t","i","g","u","e">>, <<"c","o","u","g","h">> }

\* The state after `new APSAEngine(dataset)`, in an App that has not started.
InitWith(dataset) ==
  /\ knowledge = Constructor(dataset)
  /\ evidence = <<>>
  /\ hypotheses = <<>>
  /\ askedQuestions = <<>>
  /\ cycle = 0
  /\ terminated = FALSE
  /\ lastCall = [op |-> "constructor", args |-> <<>>, result |-> <<>>]
  /\ snapshot = <<>>
  /\ appState = "GREETING"
  /\ chat = FALSE
  /\ messages = 0
  /\ isLoading = FALSE
  /\ categorizedSymptoms = FALSE
  /\ report = FALSE
  /\ proposedQuestion = <<>>
  /\ pending = <<>>
  /\ ai = Serving
  /\ DEFAULT_MODEL = ModelOrDefault("")

InitSelection == InitWith(FourConditions)

NextSelection ==
  \/ \E symptom \in SelectionSymptoms, presence \in Presences :
       AnswerQuestion(symptom, presence, 0)
  \/ ProposeQuestion

SpecSelection == InitSelection /\ [][NextSelection]_vars

(***************************************************************************)
(* The planner over three conditions that share the tokens "chest pain"    *)
(* and "sore back": a candidate token that every hypothesis holds.         *)
(***************************************************************************)
ThreeConditions ==
  << [disease_name |-> "Costochondritis",
      symptoms |-> <<"c","h","e","s","t"," ","p","a","i","n",";"," ","s","o","r","e"," ","b","a","c","k",";"," ","n","a","u","s","e","a">>],
     [disease_name |-> "Fibromyalgia",
      symptoms |-> <<"c","h","e","s","t"," ","p","a","i","n",";"," ","s","o","r","e"," ","b","a","c","k",";"," ","s","t","i","f","f"," ","n","e","c","k">>],
     [disease_name |-> "Shingles",
      symptoms |-> <<"c","h","e","s","t"," ","p","a","i","n",";"," ","s","o","r","e"," ","b","a","c","k",";"," ","s","t","i","f","f"," ","n","e","c","k",";"," ","r","a","s","h">>] >>

SharedSymptoms == { <<"s","o","r","e">>, <<"s","t","i","f","f">> }

\* Two conditions whose only token the planner's keyword test lets through
\* is a token of both.
SharedTokenOnly ==
  << [disease_name |-> "Bruise", symptoms |-> <<"c","h","e","s","t"," ","p","a","i","n",";"," ","s","o","r","e"," ","b","a","c","k">>],
     [disease_name |-> "Strain",
      symptoms |-> <<"c","h","e","s","t"," ","p","a","i","n",";"," ","s","o","r","e"," ","b","a","c","k",";"," ","s","t","i","f","f"," ","n","e","c","k">>] >>

InitDoubles == InitWith(ThreeConditions) \/ InitWith(SharedTokenOnly)

NextDoubles ==
  \/ \E symptom \in SharedSymptoms, presence \in Presences :
       AnswerQuestion(symptom, presence, 0)
  \/ ProposeQuestion

SpecDoubles == InitDoubles /\ [][NextDoubles]_vars

(***************************************************************************)
(* The co-occurrence lookup over the two knowledge bases: the eight        *)
(* conditions share tokens, so that counts differ and tie.                 *)
(***************************************************************************)
LookupPhrases == { <<"s","o","r","e"," ","t","h","r","o","a","t">>, <<"F","e","v","e","r">>, <<"p","a","i","n">>, <<>> }

LookupLimits == {0, 2, 5}

InitLookup == InitWith(TwoConditions) \/ InitWith(EightConditions)

NextLookup ==
  \/ \E symptom \in RankingSymptoms, presence \in Presences :
       AnswerQuestion(symptom, presence, 0)
  \/ \E symptom \in LookupPhrases, limit \in LookupLimits :
       GetCooccurring(symptom, limit)

SpecLookup == InitLookup /\ [][NextLookup]_vars

(***************************************************************************)
(* The engine over datasets with irregular rows: a condition label on two  *)
(* rows, no rows at all, rows with an empty or a missing symptom text.     *)
(***************************************************************************)
DuplicateLabels ==
  << [disease_name |-> "Flu", symptoms |-> <<"f","e","v","e","r",";"," ","c","o","u","g","h">>],
     [disease_name |-> "Cold", symptoms |-> <<"c","o","u","g","h",";"," ","s","o","r","e"," ","t","h","r","o","a","t">>],
     [disease_name |-> "Flu", symptoms |-> <<"c","h","e","s","t"," ","p","a","i","n",";"," ","f","e","v","e","r">>] >>

NoRows == <<>>

BlankRows ==
  << [disease_name |-> "Vertigo", symptoms |-> <<>>],
     [disease_name |-> "Gout"],
     [disease_name |-> "Flu", symptoms |-> <<"f","e","v","e","r",";"," ","c","o","u","g","h">>],
     [disease_name |-> "Cold", symptoms |-> <<"c","o","u","g","h",";"," ","s","o","r","e"," ","t","h","r","o","a","t">>] >>

RowDatasets == {DuplicateLabels, NoRows, BlankRows}

RowSymptoms == { <<"f","e","v","e","r">>, <<"c","o","u","g","h">> }

RowPhrases == { <<"c","o","u","g","h">>, <<>> }

InitRows == \E dataset \in RowDatasets : InitWith(dataset)

NextRows ==
  \/ \E text \in Utterances : AddUserFreeText(text, 0)
  \/ \E symptom \in RowSymptoms, presence \in Presences :
       AnswerQuestion(symptom, presence, 0)
  \/ ProposeQuestion
  \/ \E symptom \in RowPhrases : GetCooccurring(symptom, 6)

SpecRows == InitRows /\ [][NextRows]_vars

(***************************************************************************)
(* startChatSession called on its own, for every client and every value of *)
(* VITE_GEMINI_MODEL the module can have loaded with.                      *)
(***************************************************************************)
StartChatSession ==
  /\ lastCall' = [op |-> "startChatSession", args |-> <<>>,
                  result |-> <<StartChat>>]
  /\ UNCHANGED <<engineVars, callerVars, appVars, serviceVars>>

InitSession ==
  /\ knowledge = Constructor(TwoConditions)
  /\ evidence = <<>>
  /\ hypotheses = <<>>
  /\ askedQuestions = <<>>
  /\ cycle = 0
  /\ terminated = FALSE
  /\ lastCall = [op |-> "constructor", args |-> <<>>, result |-> <<>>]
  /\ snapshot = <<>>
  /\ appState = "GREETING"
  /\ chat = FALSE
  /\ messages = 0
  /\ isLoading = FALSE
  /\ categorizedSymptoms = FALSE
  /\ report = FALSE
  /\ proposedQuestion = <<>>
  /\ pending = <<>>
  /\ ai \in Clients
  /\ DEFAULT_MODEL \in {ModelOrDefault(env) : env \in ModelSettings}

NextSession == StartChatSession

SpecSession == InitSession /\ [][NextSession]_vars

(***************************************************************************)
(* Properties.                                                             *)
(***************************************************************************)
IntakeOps == {"addUserFreeText", "answerQuestion"}

Proposed == lastCall.op = "proposeQuestion" /\ lastCall.result # <<>>

\* C1: the evidence list holds at most one record per distinct name.
C1_OneRecordPerName ==
  \A i, j \in 1..Len(evidence) :
    evidence[i].name = evidence[j].name => i = j

\* An utterance that repeats a keyword phrase has been taken in and the
\* phrase is an evidence name.
C1_Witness ==
  /\ lastCall.op = "addUserFreeText"
  /\ LET cands == Candidates(lastCall.args[1])
     IN  \E i, j \in 1..Len(cands) :
           /\ i # j
           /\ cands[i] = cands[j]
           /\ Find(evidence, cands[i])

\* C2: between operations the stored hypotheses are the scorer's result
\* computed from scratch from the current evidence and the knowledge base.
C2_HypothesesRecomputed ==
  hypotheses = RegenerateHypotheses(knowledge, evidence)

\* A structured answer has overwritten the presence of an existing record
\* (the turn index it carried was not stored) and hypotheses exist.
C2_Witness ==
  /\ lastCall.op = "answerQuestion"
  /\ \E i \in 1..Len(evidence) :
       /\ evidence[i].name = lastCall.args[1]
       /\ evidence[i].sourceMessageIndex # lastCall.args[3]
  /\ hypotheses # <<>>

Probabilities == [i \in 1..Len(hypotheses) |-> hypotheses[i].probability]

\* C3: when the hypotheses list is non-empty its probabilities sum to 1.
C3_ProbabilitiesSumToOne ==
  hypotheses # <<>> => RatSum(Probabilities) = <<1, 1>>

\* Two hypotheses of different probability.
C3_Witness ==
  /\ Len(hypotheses) >= 2
  /\ hypotheses[1].probability # hypotheses[2].probability

\* A present evidence record whose name is a substring of a token of c.
HasSupport(c) ==
  \E i \in 1..Len(evidence) :
    /\ evidence[i].presence = "present"
    /\ \E t \in Range(Tokens(knowledge, c)) : Includes(t, evidence[i].name)

\* An absent evidence record whose name is a substring of a token of c.
HasContradiction(c) ==
  \E i \in 1..Len(evidence) :
    /\ evidence[i].presence = "absent"
    /\ \E t \in Range(Tokens(knowledge, c)) : Includes(t, evidence[i].name)

Listed == {hypotheses[i].condition : i \in 1..Len(hypotheses)}

\* C4: the hypotheses list is empty iff no condition has a supporting
\* match; an unsupported condition is never listed and every listed
\* hypothesis has a non-empty supporting list.
C4_ListedOnlyIfSupported ==
  /\ hypotheses = <<>> <=>
       ~ \E c \in Range(Conditions(knowledge)) : HasSupport(c)
  /\ \A c \in Range(Conditions(knowledge)) : ~HasSupport(c) => c \notin Listed
  /\ \A i \in 1..Len(hypotheses) :
       /\ hypotheses[i].supporting # <<>>
       /\ HasSupport(hypotheses[i].condition)

\* A condition has a contradicting match (a non-zero score) and no
\* supporting match.
C4_Witness ==
  /\ lastCall.op \in IntakeOps
  /\ \E c \in Range(Conditions(knowledge)) :
       HasContradiction(c) /\ ~HasSupport(c)

\* C5: the targetSymptom of a plan returned by proposeQuestion is not the
\* name of a record of the evidence list.
C5_TargetNotInEvidence ==
  Proposed => lastCall.result[1].targetSymptom \notin Known(evidence)

\* A plan is returned while a token of a listed condition that passes the
\* planner's keyword test is an evidence name.
C5_Witness ==
  /\ Proposed
  /\ \E i \in 1..Len(hypotheses), e \in 1..Len(evidence) :
       /\ evidence[e].name \in Range(Tokens(knowledge, hypotheses[i].condition))
       /\ PlannerTest(evidence[e].name)

\* C6: proposeQuestion returns null whenever fewer than 2 hypotheses exist.
C6_NullBelowTwoHypotheses ==
  (lastCall.op = "proposeQuestion" /\ Len(hypotheses) < 2)
    => lastCall.result = <<>>

\* proposeQuestion has been called with exactly one hypothesis, whose
\* condition has a token that is not yet evidence.
C6_Witness ==
  /\ lastCall.op = "proposeQuestion"
  /\ Len(hypotheses) = 1
  /\ PlannerCandidates(SymptomFreqKeys(knowledge, hypotheses, <<>>), evidence)
       # <<>>

\* C7: proposeQuestion never returns a plan whose targetSymptom is the
\* targetSymptom of a plan recorded in askedQuestions before the call.
C7_NeverAsksAgain ==
  Proposed =>
    \A i \in 1..(Len(askedQuestions) - 1) :
      askedQuestions[i].targetSymptom # lastCall.result[1].targetSymptom

\* C8: addUserFreeText leaves every existing evidence record as it was
\* and inserts no record for a phrase that is already an evidence name.
C8_FreeTextKeepsRecords ==
  [][lastCall'.op = "addUserFreeText" =>
       /\ Len(evidence') >= Len(evidence)
       /\ \A i \in 1..Len(evidence) : evidence'[i] = evidence[i]
       /\ \A i \in (Len(evidence) + 1)..Len(evidence') :
            ~Find(evidence, evidence'[i].name)]_vars

\* An utterance has been taken in one of whose phrases names a record that
\* is absent or uncertain.
C8_Witness ==
  /\ lastCall.op = "addUserFreeText"
  /\ \E i \in 1..Len(evidence) :
       /\ evidence[i].name \in Range(Candidates(lastCall.args[1]))
       /\ evidence[i].presence \in {"absent", "uncertain"}

\* C9: answerQuestion(symptom, presence, turn) sets the presence of the
\* record named symptom when there is one, the list keeping its length,
\* and otherwise appends the record (symptom, presence, turn) at the end;
\* every other record is unchanged.
C9_AnswerStoresPresence ==
  [][lastCall'.op = "answerQuestion" =>
       LET symptom  == lastCall'.args[1]
           presence == lastCall'.args[2]
           turn     == lastCall'.args[3]
       IN  IF Find(evidence, symptom)
           THEN /\ Len(evidence') = Len(evidence)
                /\ \A i \in 1..Len(evidence) :
                     IF evidence[i].name = symptom
                     THEN /\ evidence'[i].name = symptom
                          /\ evidence'[i].presence = presence
                     ELSE evidence'[i] = evidence[i]
           ELSE evidence' =
                  Append(evidence, [name |-> symptom, presence |-> presence,
                                    sourceMessageIndex |-> turn])]_vars

\* A structured answer names the last of at least two records, which holds
\* the presence and the turn index of the answer.
C9_Witness ==
  /\ lastCall.op = "answerQuestion"
  /\ Len(evidence) >= 2
  /\ evidence[Len(evidence)].name = lastCall.args[1]
  /\ evidence[Len(evidence)].presence = lastCall.args[2]
  /\ evidence[Len(evidence)].sourceMessageIndex = lastCall.args[3]

\* C10: evidence is never deleted: over every step the set of evidence
\* names only grows, the number of records does not decrease and records
\* keep their relative order.
C10_EvidenceOnlyGrows ==
  [][/\ Known(evidence) \subseteq Known(evidence')
     /\ Len(evidence') >= Len(evidence)
     /\ \A i, j \in 1..Len(evidence) :
          i < j =>
            \E k, l \in 1..Len(evidence') :
              /\ k < l
              /\ evidence'[k].name = evidence[i].name
              /\ evidence'[l].name = evidence[j].name]_vars

\* A structured answer has overwritten the first of two records.
C10_Witness ==
  /\ lastCall.op = "answerQuestion"
  /\ Len(evidence) >= 2
  /\ evidence[1].name = lastCall.args[1]

\* C11: when a new interview starts after the start-over action, the
\* engine holds no evidence, no hypotheses and no asked questions of the
\* interview before: whenever the App shows the greeting view the engine
\* state is empty.
C11_GreetingWithFreshEngine ==
  appState = "GREETING" =>
    /\ evidence = <<>>
    /\ hypotheses = <<>>
    /\ askedQuestions = <<>>

\* A step in which the caller writes to the snapshot it holds.
CallerEdited ==
  /\ snapshot # <<>> /\ snapshot' # <<>>
  /\ ~snapshot[1].edited /\ snapshot'[1].edited

Queries == {"getSnapshot", "getCooccurring"}

\* C12: a getSnapshot or getCooccurring call leaves evidence, hypotheses,
\* askedQuestions, cycle, terminated and the knowledge base as they were,
\* and no step at all changes the knowledge base.
C12_QueriesReadOnly ==
  [][/\ (lastCall'.op \in Queries /\ ~CallerEdited) => UNCHANGED engineVars
     /\ knowledge' = knowledge]_vars

C12_Witness ==
  /\ lastCall.op = "getCooccurring"
  /\ lastCall.result # <<>>
  /\ snapshot # <<>>
  /\ hypotheses # <<>>
  /\ askedQuestions # <<>>

\* C13: while a caller holds a snapshot, no engine operation changes what
\* the caller reads from it, and the caller writing to the snapshot changes
\* nothing of the engine.
C13_SnapshotIsolated ==
  [][/\ snapshot' = snapshot => Observed' = Observed
     /\ CallerEdited => UNCHANGED engineVars]_vars

C13_Witness ==
  /\ snapshot # <<>>
  /\ snapshot[1].edited
  /\ snapshot[1].value.hypotheses # <<>>
  /\ snapshot[1].value.askedQuestions = <<>>
  /\ askedQuestions # <<>>
  /\ evidence # <<>>
  /\ evidence[1].presence = "absent"

\* C14: an addUserFreeText or answerQuestion call that leaves the evidence
\* as it was leaves the hypotheses list as it was: same conditions, order,
\* probabilities, supporting and contradicting lists.
C14_RecomputeIdempotent ==
  [][(lastCall'.op \in IntakeOps /\ evidence' = evidence)
       => hypotheses' = hypotheses]_vars

\* A free-text call all of whose symptom phrases were recorded at another
\* message index, so that it added nothing, with hypotheses listed.
C14_Witness ==
  /\ lastCall.op = "addUserFreeText"
  /\ hypotheses # <<>>
  /\ \A c \in Range(Candidates(lastCall.args[1])) :
       KeywordsTest(c) =>
         \E i \in 1..Len(evidence) :
           /\ evidence[i].name = c
           /\ evidence[i].sourceMessageIndex # lastCall.args[2]

\* The raw score of a condition under the evidence held.
RawScore(c) == ScoreCondition(knowledge, evidence, c).score

\* The number of tokens of a condition that contain a name.
Matches(c, name) ==
  LET tokens == Tokens(knowledge, c)
  IN  Cardinality({i \in 1..Len(tokens) : Includes(tokens[i], name)})

\* A step that appends one record to the evidence and changes no other.
OneRecordAdded ==
  /\ Len(evidence') = Len(evidence) + 1
  /\ SubSeq(evidence', 1, Len(evidence)) = evidence

\* C15: when one new present record is added and every other record stays
\* as it was, the raw score of every condition grows by 2 for each of its
\* tokens containing the new name, and so never decreases.
C15_PresentRaisesScore ==
  [][(OneRecordAdded /\ evidence'[Len(evidence')].presence = "present")
       => \A c \in Range(Conditions(knowledge)) :
            /\ RawScore(c)' =
                 RawScore(c) + 2 * Matches(c, evidence'[Len(evidence')].name)
            /\ RawScore(c)' >= RawScore(c)]_vars

\* A present record of a name that two tokens of a condition contain was
\* added after an absent one.
C15_Witness ==
  /\ Len(evidence) > 1
  /\ evidence[1].presence = "absent"
  /\ evidence[Len(evidence)].presence = "present"
  /\ lastCall.op = "answerQuestion"
  /\ lastCall.args[1] = evidence[Len(evidence)].name
  /\ \E c \in Range(Conditions(knowledge)) :
       Matches(c, evidence[Len(evidence)].name) > 1

\* The (record, token) pairs of a condition in which the record has the
\* given presence and the token contains the record's name.
Pairs(c, presence) ==
  LET tokens == Tokens(knowledge, c)
  IN  {p \in (1..Len(evidence)) \X (1..Len(tokens)) :
         /\ evidence[p[1]].presence = presence
         /\ Includes(tokens[p[2]], evidence[p[1]].name)}

\* The names of the records of the given presence that match a condition.
MatchingNames(c, presence) == {evidence[p[1]].name : p \in Pairs(c, presence)}

\* The evidence without its uncertain records.
RECURSIVE Certain(_)
Certain(evs) ==
  IF evs = <<>> THEN <<>>
  ELSE (IF Head(evs).presence = "uncertain" THEN <<>> ELSE <<Head(evs)>>)
       \o Certain(Tail(evs))

\* C16: the raw score of a condition is +2 for every pair of a present
\* record and a token containing its name and -2 for every such pair of an
\* absent record; supporting and contradicting hold the names of the
\* matching present and absent records; uncertain records change nothing:
\* the hypotheses are those of the evidence without them.
C16_ScoringRule ==
  /\ \A c \in Range(Conditions(knowledge)) :
       LET s == ScoreCondition(knowledge, evidence, c)
       IN  /\ s.score = 2 * Cardinality(Pairs(c, "present"))
                          - 2 * Cardinality(Pairs(c, "absent"))
           /\ Range(s.supporting) = MatchingNames(c, "present")
           /\ Range(s.contradicting) = MatchingNames(c, "absent")
  /\ \A i \in 1..Len(hypotheses) :
       /\ Range(hypotheses[i].supporting) =
            MatchingNames(hypotheses[i].condition, "present")
       /\ Range(hypotheses[i].contradicting) =
            MatchingNames(hypotheses[i].condition, "absent")
  /\ hypotheses = RegenerateHypotheses(knowledge, Certain(evidence))

\* A listed condition is matched by a present, an absent and an uncertain
\* record.
C16_Witness ==
  \E i \in 1..Len(hypotheses) :
    /\ Pairs(hypotheses[i].condition, "present") # {}
    /\ Pairs(hypotheses[i].condition, "absent") # {}
    /\ Pairs(hypotheses[i].condition, "uncertain") # {}

\* The raw scores of the listed hypotheses.
Retained == [i \in 1..Len(hypotheses) |-> RawScore(hypotheses[i].condition)]

\* The lowest of the retained raw scores.
Lowest == CHOOSE x \in Range(Retained) : \A y \in Range(Retained) : x <= y

\* The position of a hypothesis with the lowest retained raw score.
Last == CHOOSE i \in 1..Len(hypotheses) : Retained[i] = Lowest

\* C17 as stated: in a non-empty list the lowest-scoring hypothesis has the
\* shifted score 0.001, so its probability is 0.001 over the sum of the
\* scores shifted to that minimum, also when every retained raw score is
\* positive.
C17_LowestShiftedIsThousandth ==
  hypotheses # <<>> =>
    hypotheses[Last].probability =
      Rat(1, SumSeq([i \in 1..Len(Retained) |->
                       1000 * (Retained[i] - Lowest) + 1]))

\* What the scores are shifted by: the lowest retained raw score when it is
\* below zero, and nothing otherwise.
Shift == IF Lowest < 0 THEN Lowest ELSE 0

\* C17, amended: every retained raw score is shifted by 0.001 minus the
\* lesser of the lowest retained raw score and 0, so the lowest shifted
\* score is 0.001 when the lowest raw score is zero or negative and the
\* lowest raw score plus 0.001 when it is positive; each probability is the
\* shifted score over the sum of the shifted scores.
C17_ShiftedByNegativeMinimum ==
  hypotheses # <<>> =>
    LET shifted == [i \in 1..Len(Retained) |-> 1000 * (Retained[i] - Shift) + 1]
    IN  /\ \A i \in 1..Len(hypotheses) :
             hypotheses[i].probability = Rat(shifted[i], SumSeq(shifted))
        /\ shifted[Last] =
             IF Lowest <= 0 THEN 1 ELSE 1000 * Lowest + 1

\* Several hypotheses, all with positive raw scores that are not all equal.
C17_Witness ==
  /\ Len(hypotheses) > 1
  /\ Lowest > 0
  /\ \E i \in 1..Len(hypotheses) : Retained[i] > Lowest

\* p < q and p <= q for fractions with positive denominators.
RatLess(p, q) == p[1] * q[2] < q[1] * p[2]

RatLeq(p, q) == p[1] * q[2] <= q[1] * p[2]

\* The place of a condition in the enumeration of the knowledge base.
Place(c) == CHOOSE i \in 1..Len(knowledge) : knowledge[i].condition = c

\* c ranks before d: a higher raw score, or an equal one and an earlier
\* place in the knowledge base.
RanksBefore(c, d) ==
  \/ RawScore(c) > RawScore(d)
  \/ RawScore(c) = RawScore(d) /\ Place(c) < Place(d)

SupportedConditions == {c \in Range(Conditions(knowledge)) : HasSupport(c)}

\* C18: the list holds the supported conditions, at most 6 of them, those
\* that rank first by raw score and, at equal score, by their place in the
\* knowledge base; it lists them in that order, so probabilities never
\* increase along the list.
C18_TopSixInOrder ==
  /\ Len(hypotheses) <= 6
  /\ Len(hypotheses) = IF Cardinality(SupportedConditions) < 6
                       THEN Cardinality(SupportedConditions) ELSE 6
  /\ Listed \subseteq SupportedConditions
  /\ \A c \in Listed : \A d \in SupportedConditions \ Listed : RanksBefore(c, d)
  /\ \A i, j \in 1..Len(hypotheses) :
       i < j => /\ RanksBefore(hypotheses[i].condition, hypotheses[j].condition)
                /\ RatLeq(hypotheses[j].probability, hypotheses[i].probability)

\* More than six conditions are supported, one kept and one cut off have
\* the same raw score, and the first of the list is not the first of the
\* knowledge base.
C18_Witness ==
  /\ Cardinality(SupportedConditions) > 6
  /\ \E c \in Listed : \E d \in SupportedConditions \ Listed :
       RawScore(c) = RawScore(d)
  /\ Place(hypotheses[1].condition) > 1

\* C19: the probability of every listed hypothesis is above 0 and at most
\* 1, whatever its raw score.
C19_ProbabilityInRange ==
  \A i \in 1..Len(hypotheses) :
    /\ hypotheses[i].probability[2] > 0
    /\ hypotheses[i].probability[1] > 0
    /\ hypotheses[i].probability[1] <= hypotheses[i].probability[2]

\* A hypothesis with a negative raw score is listed next to one with the
\* raw score zero.
C19_Witness ==
  /\ \E i \in 1..Len(hypotheses) : Retained[i] < 0
  /\ \E i \in 1..Len(hypotheses) : Retained[i] = 0

\* The evidence after answerQuestion("sore throat", "present", 0) and after
\* a following answerQuestion("fever", "absent", 1).
SoreThroatPresent ==
  << [name |-> <<"s","o","r","e"," ","t","h","r","o","a","t">>, presence |-> "present",
      sourceMessageIndex |-> 0] >>

ThenFeverAbsent ==
  Append(SoreThroatPresent,
         [name |-> <<"f","e","v","e","r">>, presence |-> "absent", sourceMessageIndex |-> 1])

\* The probability of a listed condition.
Probability(c) ==
  hypotheses[CHOOSE i \in 1..Len(hypotheses) :
               hypotheses[i].condition = c].probability

\* C20: with the knowledge base of Strep Throat and Common Cold, after
\* "sore throat" is answered present both conditions are listed with a
\* probability above zero and "sore throat" among their supporting names;
\* when "fever" is then answered absent, Strep Throat's raw score falls,
\* Common Cold's stays, and Common Cold's probability is above Strep
\* Throat's and above its own before.
C20_SoreThroatThenNoFever ==
  [][/\ evidence' = SoreThroatPresent =>
          /\ Listed' = {"Strep Throat", "Common Cold"}
          /\ \A i \in 1..Len(hypotheses') :
               /\ hypotheses'[i].probability[1] > 0
               /\ <<"s","o","r","e"," ","t","h","r","o","a","t">> \in Range(hypotheses'[i].supporting)
     /\ (evidence = SoreThroatPresent /\ evidence' = ThenFeverAbsent) =>
          /\ Listed' = {"Strep Throat", "Common Cold"}
          /\ RawScore("Strep Throat")' < RawScore("Strep Throat")
          /\ RawScore("Common Cold")' = RawScore("Common Cold")
          /\ RatLess(Probability("Strep Throat")', Probability("Common Cold")')
          /\ RatLess(Probability("Common Cold"), Probability("Common Cold")')
    ]_vars

C20_Witness ==
  /\ evidence = ThenFeverAbsent
  /\ lastCall.op = "answerQuestion"
  /\ lastCall.args = << <<"f","e","v","e","r">>, "absent", 1 >>
  /\ Probability("Common Cold") = <<2001, 2002>>

\* The hypotheses whose condition has the token, by position in the list.
Holders(t) ==
  {i \in 1..Len(hypotheses) :
     t \in Range(Tokens(knowledge, hypotheses[i].condition))}

\* The probability mass of a set of hypotheses.
RECURSIVE Mass(_)
Mass(is) ==
  IF is = {} THEN <<0, 1>>
  ELSE LET i == CHOOSE x \in is : TRUE
       IN  RatAdd(hypotheses[i].probability, Mass(is \ {i}))

\* The tokens the planner may ask about: a token of a listed condition that
\* is no evidence name, passes the planner's keyword test and is held by
\* some but not all of the probability mass.
Askable ==
  {t \in UNION {Range(Tokens(knowledge, c)) : c \in Listed} :
     /\ t \notin Known(evidence)
     /\ PlannerTest(t)
     /\ Holders(t) # {}
     /\ Mass(Holders(t)) # <<1, 1>>}

\* Twice the distance of a fraction from one half, as a fraction.
FromHalf(p) == Rat(Abs(2 * p[1] - p[2]), p[2])

\* When a token is first seen in the scan over the hypotheses in list order
\* and, within a hypothesis, over the tokens of its condition.
FirstSeen(t) ==
  LET i      == CHOOSE x \in Holders(t) : \A y \in Holders(t) : x <= y
      tokens == Tokens(knowledge, hypotheses[i].condition)
  IN  <<i, CHOOSE j \in 1..Len(tokens) : tokens[j] = t>>

SeenBefore(t, u) ==
  \/ FirstSeen(t)[1] < FirstSeen(u)[1]
  \/ FirstSeen(t)[1] = FirstSeen(u)[1] /\ FirstSeen(t)[2] < FirstSeen(u)[2]

\* C21: a returned plan targets an askable token whose probability mass is
\* nearest to one half (the greatest binary-entropy gain), and among the
\* askable tokens equally near the one first seen in the scan.
C21_GreatestGainFirstSeen ==
  Proposed =>
    LET target == lastCall.result[1].targetSymptom
    IN  /\ target \in Askable
        /\ \A t \in Askable \ {target} :
             \/ RatLess(FromHalf(Mass(Holders(target))),
                        FromHalf(Mass(Holders(t))))
             \/ /\ FromHalf(Mass(Holders(target))) = FromHalf(Mass(Holders(t)))
                /\ SeenBefore(target, t)

\* C22: the target of a returned plan is a token of the condition of some
\* listed hypothesis and not a token of the conditions of all of them.
C22_TargetDiscriminates ==
  Proposed =>
    LET target == lastCall.result[1].targetSymptom
    IN  /\ Holders(target) # {}
        /\ Holders(target) # 1..Len(hypotheses)

\* The tokens of the knowledge base.
KnowledgeTokens == UNION {Range(knowledge[i].tokens) : i \in 1..Len(knowledge)}

\* C23: a token of the knowledge base or an evidence name passes the
\* planner's keyword test exactly when it passes the extractor's.
C23_SameKeywordTest ==
  \A token \in KnowledgeTokens \cup Known(evidence) :
    PlannerTest(token) <=> KeywordsTest(token)

\* C24: every step leaves the entries of askedQuestions in place; a
\* proposeQuestion call that returns a plan adds that plan at the end, and
\* any other call leaves the history as it was.
C24_AppendOnly ==
  [][/\ Len(askedQuestions') >= Len(askedQuestions)
     /\ SubSeq(askedQuestions', 1, Len(askedQuestions)) = askedQuestions
     /\ IF lastCall'.op = "proposeQuestion" /\ lastCall'.result # <<>>
        THEN askedQuestions' = Append(askedQuestions, lastCall'.result[1])
        ELSE askedQuestions' = askedQuestions]_vars

\* A second, different plan has been added behind the first.
C24_Witness ==
  /\ Proposed
  /\ Len(askedQuestions) = 2
  /\ askedQuestions[2] = lastCall.result[1]
  /\ askedQuestions[1].targetSymptom # askedQuestions[2].targetSymptom

LookedUp == lastCall.op = "getCooccurring"

\* The phrase of the lookup, lowercased as tokens are.
Phrase == ToLowerCase(lastCall.args[1])

\* The conditions, by position in the knowledge base, that have a token
\* containing the phrase.
Qualifying ==
  {c \in 1..Len(knowledge) :
     \E t \in Range(knowledge[c].tokens) : Includes(t, Phrase)}

\* C26: a lookup returns at most limit tokens, no token twice, each a token
\* of a condition that has a token containing the phrase, none containing
\* the phrase itself; for "sore throat" and limit 5 on the two conditions
\* the tokens are among fever, swollen glands, runny nose and cough.
C26_CooccurringBounded ==
  LookedUp =>
    LET result == lastCall.result
    IN  /\ Len(result) <= lastCall.args[2]
        /\ \A i, j \in 1..Len(result) : result[i] = result[j] => i = j
        /\ \A i \in 1..Len(result) :
             /\ \E c \in Qualifying : result[i] \in Range(knowledge[c].tokens)
             /\ ~Includes(result[i], Phrase)
        /\ (/\ knowledge = Constructor(TwoConditions)
            /\ lastCall.args = << <<"s","o","r","e"," ","t","h","r","o","a","t">>, 5 >>)
           => /\ result # <<>>
              /\ Range(result) \subseteq
                   { <<"f","e","v","e","r">>, <<"s","w","o","l","l","e","n"," ","g","l","a","n","d","s">>, <<"r","u","n","n","y"," ","n","o","s","e">>, <<"c","o","u","g","h">> }

\* A lookup cut at its limit, and a lookup whose tokens come from several
\* conditions sharing one of them.
C26_Witness ==
  /\ LookedUp
  /\ Len(lastCall.result) = 2
  /\ lastCall.args[2] = 2
  /\ \E c, d \in Qualifying :
       /\ c # d
       /\ lastCall.result[1] \in Range(knowledge[c].tokens)
       /\ lastCall.result[1] \in Range(knowledge[d].tokens)
  /\ \E c \in Qualifying : \E t \in Range(knowledge[c].tokens) :
       ~Includes(t, Phrase) /\ t \notin Range(lastCall.result)

\* The tokens a lookup collects: the tokens of at least three characters of
\* the qualifying conditions that do not contain the phrase.
Collected ==
  {t \in UNION {Range(knowledge[c].tokens) : c \in Qualifying} :
     ~Includes(t, Phrase) /\ Len(t) >= 3}

\* In how many qualifying conditions a token occurs.
Frequency(t) ==
  Cardinality({c \in Qualifying : t \in Range(knowledge[c].tokens)})

\* Where a token is first met in the scan over the conditions in knowledge
\* base order and, within a condition, over its tokens.
Encounter(t) ==
  LET c == CHOOSE x \in Qualifying :
             /\ t \in Range(knowledge[x].tokens)
             /\ \A y \in Qualifying :
                  t \in Range(knowledge[y].tokens) => x <= y
  IN  <<c, CHOOSE j \in 1..Len(knowledge[c].tokens) :
             knowledge[c].tokens[j] = t>>

\* t comes before u in the result: more frequent, or as frequent and met
\* earlier.
Ahead(t, u) ==
  \/ Frequency(t) > Frequency(u)
  \/ /\ Frequency(t) = Frequency(u)
     /\ \/ Encounter(t)[1] < Encounter(u)[1]
        \/ Encounter(t)[1] = Encounter(u)[1] /\ Encounter(t)[2] < Encounter(u)[2]

PhrasesOf(text) ==
  LET lower == ToLowerCase(text)
      n     == Len(lower)
  IN  {Trim(SubSeq(lower, a, b)) : <<a, b>> \in
         {ab \in (1..n + 1) \X (0..n) :
            /\ ab[1] <= ab[2] + 1
            /\ ab[1] = 1 \/ lower[ab[1] - 1] \in TextDelims
            /\ ab[2] = n \/ lower[ab[2] + 1] \in TextDelims
            /\ \A k \in ab[1]..ab[2] : lower[k] \notin TextDelims}}
      \ {<<>>}

\* C28: an addUserFreeText call leaves the records it finds as they are and
\* adds, after them, one record per phrase of the utterance that matches
\* the keyword set and was no evidence name, each present and carrying the
\* turn index of the call, and no other record.
C28_FreeTextExtraction ==
  [][lastCall'.op = "addUserFreeText" =>
       LET text  == lastCall'.args[1]
           added == SubSeq(evidence', Len(evidence) + 1, Len(evidence'))
       IN  /\ Len(evidence') >= Len(evidence)
           /\ SubSeq(evidence', 1, Len(evidence)) = evidence
           /\ \A i \in 1..Len(added) :
                /\ added[i].presence = "present"
                /\ added[i].sourceMessageIndex = lastCall'.args[2]
                /\ added[i].name \in PhrasesOf(text)
                /\ KeywordsTest(added[i].name)
                /\ added[i].name \notin Known(evidence)
                /\ \A j \in 1..Len(added) : added[j].name = added[i].name => j = i
           /\ \A phrase \in PhrasesOf(text) :
                KeywordsTest(phrase) => phrase \in Known(evidence')]_vars

\* The utterance "mild ; Sore throat\n" at turn 1 has left a record for
\* "sore throat" and none for "mild".
C28_Witness ==
  /\ lastCall.op = "addUserFreeText"
  /\ lastCall.args = << <<"m","i","l","d"," ",";"," ","S","o","r","e"," ","t","h","r","o","a","t","\n">>, 1 >>
  /\ \E i \in 1..Len(evidence) :
       /\ evidence[i] = [name |-> <<"s","o","r","e"," ","t","h","r","o","a","t">>, presence |-> "present",
                         sourceMessageIndex |-> 1]
  /\ <<"m","i","l","d">> \notin Known(evidence)
  /\ PhrasesOf(lastCall.args[1]) = { <<"m","i","l","d">>, <<"s","o","r","e"," ","t","h","r","o","a","t">> }

\* The rows of a dataset that carry a label, by position.
RowsOf(dataset, label) ==
  {i \in 1..Len(dataset) : dataset[i].disease_name = label}

\* The last row of a dataset that carries a label.
LastRow(dataset, label) ==
  dataset[CHOOSE i \in RowsOf(dataset, label) :
            \A j \in RowsOf(dataset, label) : j <= i]

\* The tokens a symptom text stands for: the pieces between full stops,
\* semicolons and line ends, trimmed and lowercased, of three characters or
\* more.
TokensOfText(text) ==
  {t \in {ToLowerCase(Trim(p)) : p \in Range(Split(text, RowDelims))} :
     Len(t) >= 3}

\* C29: the knowledge base has one entry per label of the dataset, and the
\* tokens of the entry are those of the last row with the label: a token
\* that only an earlier row with the label has is no token of the entry.
C29_LastRowWins ==
  \A dataset \in RowDatasets :
    knowledge = Constructor(dataset) =>
      /\ {knowledge[i].condition : i \in 1..Len(knowledge)}
           = {dataset[i].disease_name : i \in 1..Len(dataset)}
      /\ \A i, j \in 1..Len(knowledge) :
           knowledge[i].condition = knowledge[j].condition => i = j
      /\ \A i \in 1..Len(knowledge) :
           LET row == LastRow(dataset, knowledge[i].condition)
           IN  Range(knowledge[i].tokens) =
                 IF "symptoms" \in DOMAIN row
                 THEN TokensOfText(row.symptoms) ELSE {}

\* The engine built from the rows Flu, Cold, Flu has been told of a cough:
\* cough is a token of the first Flu row only, and Cold alone is listed.
C29_Witness ==
  /\ knowledge = Constructor(DuplicateLabels)
  /\ Cardinality(RowsOf(DuplicateLabels, "Flu")) = 2
  /\ lastCall.op = "answerQuestion"
  /\ lastCall.args[1] = <<"c","o","u","g","h">>
  /\ lastCall.args[2] = "present"
  /\ evidence = <<[name |-> <<"c","o","u","g","h">>, presence |-> "present",
                   sourceMessageIndex |-> 0]>>
  /\ Listed = {"Cold"}

\* C30: with a knowledge base of no conditions the hypotheses list is
\* empty, a proposal is null and a lookup returns no token, whatever has
\* been said and answered; a row with an empty or a missing symptom text
\* gives its condition an empty token set, and a condition with an empty
\* token set is never listed.
C30_EmptyKnowledge ==
  /\ knowledge = <<>> =>
       /\ hypotheses = <<>>
       /\ lastCall.op \in {"proposeQuestion", "getCooccurring"}
            => lastCall.result = <<>>
  /\ knowledge = Constructor(BlankRows) =>
       /\ Tokens(knowledge, "Vertigo") = <<>>
       /\ Tokens(knowledge, "Gout") = <<>>
  /\ \A i \in 1..Len(knowledge) :
       knowledge[i].tokens = <<>> => knowledge[i].condition \notin Listed

\* An engine without conditions that holds evidence has been asked for a
\* question.
C30_Witness ==
  /\ knowledge = Constructor(NoRows)
  /\ knowledge = <<>>
  /\ Len(evidence) >= 2
  /\ lastCall.op = "proposeQuestion"
  /\ lastCall.result = <<>>
  /\ askedQuestions = <<>>

\* C31: the cycle counter never decreases, and after an intake (free text
\* or answer, with its recompute) it is greater than the 0 it had at
\* construction.
C31_CycleIncreases ==
  /\ cycle >= 0
  /\ lastCall.op \in IntakeOps => cycle > 0

\* C32: at most one handler is suspended at a model call, and isLoading is
\* true for as long as it is; while isLoading is true no step issues a
\* further model call, and the engine changes only when the suspended
\* handleSendMessage resumes and asks for a question.
C32_OneInFlight ==
  [][/\ Len(pending') <= 1
     /\ pending' # <<>> => isLoading'
     /\ isLoading =>
          /\ pending' = pending \/ pending' = <<>>
          /\ evidence' = evidence
          /\ hypotheses' = hypotheses
          /\ askedQuestions' # askedQuestions =>
               pending = <<"sendMessage">> /\ pending' = <<>>]_vars

\* A user message is in flight: its text has reached the engine and the
\* model call has not returned.
C32_Witness ==
  /\ pending = <<"sendMessage">>
  /\ isLoading
  /\ lastCall.op = "addUserFreeText"
  /\ evidence # <<>>
  /\ ENABLED (\E content \in Contents : HandleSendMessage(content))
  /\ ENABLED HandleReviewSymptoms

\* The tokens that can discriminate: a token of a listed condition that is
\* no evidence name, passes the planner's keyword test and is a token of
\* some but not all of the listed conditions.
Discriminating ==
  {t \in UNION {Range(Tokens(knowledge, c)) : c \in Listed} :
     /\ t \notin Known(evidence)
     /\ PlannerTest(t)
     /\ Holders(t) # {}
     /\ Holders(t) # 1..Len(hypotheses)}

\* C33: proposeQuestion returns a plan when there are at least two
\* hypotheses and some token can discriminate, and null in every other
\* case.
C33_PlanIffDiscriminating ==
  lastCall.op = "proposeQuestion" =>
    (lastCall.result # <<>>
       <=> Len(hypotheses) >= 2 /\ Discriminating # {})

\* C34: a proposeQuestion call leaves evidence, hypotheses, cycle,
\* terminated and the knowledge base as they were, and a call that returns
\* null leaves askedQuestions as it was too.
C34_ProposalFrame ==
  [][lastCall'.op = "proposeQuestion" =>
       /\ evidence' = evidence
       /\ hypotheses' = hypotheses
       /\ cycle' = cycle
       /\ terminated' = terminated
       /\ knowledge' = knowledge
       /\ lastCall'.result = <<>> => askedQuestions' = askedQuestions]_vars

\* A first plan has been returned in a state with evidence and hypotheses.
C34_Witness ==
  /\ Proposed
  /\ Len(askedQuestions) = 1
  /\ Len(hypotheses) >= 2
  /\ evidence # <<>>

\* C35: an answerQuestion call for a name the evidence list holds keeps the
\* list as long as it was, every record at its place with its name and its
\* sourceMessageIndex, and changes nothing but the presence of the record
\* of that name.
C35_OverwriteKeepsTurn ==
  [][(lastCall'.op = "answerQuestion" /\ lastCall'.args[1] \in Known(evidence)) =>
       /\ Len(evidence') = Len(evidence)
       /\ \A i \in 1..Len(evidence) :
            /\ evidence'[i].name = evidence[i].name
            /\ evidence'[i].sourceMessageIndex = evidence[i].sourceMessageIndex
            /\ evidence'[i].presence =
                 IF evidence[i].name = lastCall'.args[1]
                 THEN lastCall'.args[2] ELSE evidence[i].presence]_vars

\* An answer given at one turn has overwritten the first of two records,
\* which carries another turn index.
C35_Witness ==
  /\ lastCall.op = "answerQuestion"
  /\ Len(evidence) = 2
  /\ evidence[1].name = lastCall.args[1]
  /\ evidence[1].presence = lastCall.args[2]
  /\ evidence[1].sourceMessageIndex # lastCall.args[3]

\* C36: in every state terminated is false and the state has no
\* terminationReason, and so has every snapshot handed out.
C36_NeverTerminated ==
  /\ ~terminated
  /\ "terminationReason" \notin DOMAIN State
  /\ lastCall.op = "getSnapshot" =>
       /\ ~lastCall.result[1].terminated
       /\ "terminationReason" \notin DOMAIN lastCall.result[1]

\* The planner has found no question for an engine that holds evidence.
C36_Witness ==
  /\ lastCall.op = "proposeQuestion"
  /\ lastCall.result = <<>>
  /\ evidence # <<>>
  /\ ~terminated

\* The moves of the application state along the interview.
ForwardEdges ==
  { <<"GREETING", "CHATTING">>, <<"CHATTING", "REVIEWING">>,
    <<"REVIEWING", "GENERATING_REPORT">>, <<"GENERATING_REPORT", "REPORTING">>,
    <<"REPORTING", "GREETING">> }

\* C37: the application state changes along the forward edges only, or
\* from REVIEWING back to CHATTING when the symptom summary that is awaited
\* fails, or from GENERATING_REPORT back to REVIEWING when the report that
\* is awaited fails; REPORTING is entered with a report and
\* GENERATING_REPORT with categorized symptoms.
C37_AppStateEdges ==
  [][/\ appState' # appState =>
          \/ <<appState, appState'>> \in ForwardEdges
          \/ /\ <<appState, appState'>> = <<"REVIEWING", "CHATTING">>
             /\ Suspended("review")
             /\ ~categorizedSymptoms'
          \/ /\ <<appState, appState'>> = <<"GENERATING_REPORT", "REVIEWING">>
             /\ Suspended("report")
             /\ ~report'
     /\ appState' = "REPORTING" => report'
     /\ appState' = "GENERATING_REPORT" => categorizedSymptoms']_vars

\* The application is back at the greeting after a whole interview in
\* which the engine was used.
C37_Witness ==
  /\ appState = "GREETING"
  /\ lastCall.op # "constructor"
  /\ ~report /\ ~categorizedSymptoms /\ ~chat


\* The result of the last call of startChatSession.
Session == lastCall.result[1]

\* The thrown values whose text holds "not found", "unsupported", "model" or
\* "field" in any letter case, read off the texts themselves.
LooksModelRelated == {Thrown.NotFound, Thrown.BadField, Thrown.Refused}

\* The first fallback, in list order, that is not among the models given.
NextFallback(used) ==
  FALLBACK_MODELS[CHOOSE i \in 1..Len(FALLBACK_MODELS) :
                    /\ FALLBACK_MODELS[i] \notin used
                    /\ \A j \in 1..(i - 1) : FALLBACK_MODELS[j] \in used]

\* C38: startChatSession throws a 'Missing API key' error, trying no model,
\* when no client is configured.  Otherwise it tries the default model
\* first and then the fallbacks in list order, no model twice; every model
\* before the last one tried threw something model-related; when the last
\* one tried created a chat, that chat is returned; when it threw something
\* that is not model-related, that is thrown; when it threw something
\* model-related, every model has been tried and that last error is thrown.
C38_StartChatSession ==
  lastCall.op = "startChatSession" =>
    LET tried == Session.tried
        n == Len(tried)
    IN  IF ~ai.configured
        THEN /\ tried = <<>>
             /\ Session.chat = ""
             /\ Session.error.thrown = "Error"
             /\ SubSeq(Session.error.message, 1, 15) = <<"M","i","s","s","i","n","g"," ","A","P","I"," ","k","e","y">>
        ELSE /\ n >= 1
             /\ tried[1] = DEFAULT_MODEL
             /\ \A i \in 2..n :
                  /\ {tried[j] : j \in 1..(i - 1)} # {DEFAULT_MODEL} \cup Range(FALLBACK_MODELS)
                  /\ tried[i] = NextFallback({tried[j] : j \in 1..(i - 1)})
             /\ \A i, j \in 1..n : tried[i] = tried[j] => i = j
             /\ \A i \in 1..(n - 1) : ai.create[tried[i]] \in LooksModelRelated
             /\ LET last == ai.create[tried[n]]
                IN  IF last = Created
                    THEN Session.chat = tried[n] /\ Session.error = Created
                    ELSE /\ Session.chat = ""
                         /\ Session.error = last
                         /\ last \in LooksModelRelated =>
                              Range(tried) = {DEFAULT_MODEL} \cup Range(FALLBACK_MODELS)

\* The configured model is a later fallback and failed with a model-related
\* error, so did the first fallback, and the second fallback gave the chat
\* that was returned.
C38_Witness ==
  /\ lastCall.op = "startChatSession"
  /\ ai.configured
  /\ DEFAULT_MODEL = "gemini-1.5-flash"
  /\ Session.tried = <<"gemini-1.5-flash", "gemini-2.5-flash", "gemini-2.0-flash">>
  /\ Session.chat = "gemini-2.0-flash"
  /\ ai.create["gemini-1.5-flash"] = Thrown.BadField
  /\ ai.create["gemini-2.5-flash"] = Thrown.Refused

====
